---- MODULE Spec2Model ----
(***************************************************************************)
(* A model of the glTF instancing pipeline of CPPAlgorithm/src:            *)
(*   - the model loader (glb_reader.cpp, utilities.cpp),                   *)
(*   - the signature engine and the instancing detector                    *)
(*     (instancing_detector.cpp).                                          *)
(*                                                                         *)
(* Conventions.                                                            *)
(*   - glTF indices are 0-based, as in the source; element i of a C++      *)
(*     vector v is v[i + 1] here.                                          *)
(*   - Lengths are integers in units of 1e-5, so the tolerance 1e-4 of the *)
(*     scenarios is 10 and every threshold 1e-9 of the source is 0.        *)
(*   - A 64-bit hash is modelled as collision-free: a hash value is the    *)
(*     sequence of the tokens that were mixed into it, hash_combine        *)
(*     appends a token.  Tokens are strings.                               *)
(*   - Transforms are restricted to the family that maps the x axis to     *)
(*     itself (translations along x, rotations about z by 0 or 180         *)
(*     degrees, uniform positive scales).  A 4x4 matrix of that family is  *)
(*     [a, b]: x |-> a * x + b, and the matrix product is the composition. *)
(***************************************************************************)
EXTENDS Integers, Sequences, FiniteSets, TLC

VARIABLES
    \* ---- loader and detector (Spec) ----
    files,                          \* the GLB files found, in std::set<path> order
    USE_OPENSSL_SHA256,             \* the build's preprocessor switch
    geometryTolerance,              \* InstancingDetector::geometryTolerance
    instanceLimit,                  \* InstancingDetector::_instanceLimit
    loadedModels,                   \* std::vector<LoadedGltfModel>
    pc,                             \* position in main / detect
    modelIdx,                       \* index of the model whose scene is traversed
    stack,                          \* pending traverseNode calls, innermost first
    potentialInstanceGroups,        \* std::map<size_t, InstancedMeshGroup>
    finalized,                      \* keys already visited by detect's last loop
    meshToSignatureCache,           \* std::map<pair<int,int>, size_t>
    modelIdToRepresentativeModelId, \* std::map<int,int>
    instancedGroups,                \* result.instancedGroups
    nonInstancedMeshes,             \* result.nonInstancedMeshes
    \* ---- signature engine on its own (SpecSig) ----
    sigPc, sigTolerance, prim1, prim2, sig1, sig2,
    \* ---- main's output stages and the GLB assembler (SpecRun) ----
    client,                         \* who drives the GlbWriter: main, or a caller
                                    \* of the public writeInstancedGlb
    meshSegmentation,               \* config.meshSegmentation
    run,                            \* 1 for the first process, 2 for a second one
                                    \* started on the GLBs the first one wrote
    asmPc,                          \* position in main behind detect
    asmMode,                        \* the write function in progress or last called
    worklist,                       \* iterations its loops still have to make
    assembly,                       \* the GlbWriter's state, see resetInternalState
    outputDirectory,                \* the files written so far, by path
    stage1_outputGlbs,              \* main's vector of the paths stage 1 wrote
    failedWrites,                   \* the "Failed to write" errors main logged
    modelsToSegment,                \* main's vector of the models stage 2 reloaded
    segmentIdx,                     \* <<modelIdx, meshIdx>> of the segmentation loops
    segmentedFiles,                 \* paths of the GLBs segmentation wrote, in order
    overallSuccess,                 \* writeMeshesAsSeparateGlbs::overallSuccess
    exitCode,                       \* what main returned, -1 while it runs
    firstRun                        \* what the first process read, detected and wrote

detVars == <<files, USE_OPENSSL_SHA256, geometryTolerance, instanceLimit,
             loadedModels, pc, modelIdx, stack, potentialInstanceGroups,
             finalized, meshToSignatureCache, modelIdToRepresentativeModelId,
             instancedGroups, nonInstancedMeshes>>
sigVars == <<sigPc, sigTolerance, prim1, prim2, sig1, sig2>>
asmVars == <<client, meshSegmentation, run, asmPc, asmMode, worklist, assembly,
             outputDirectory, stage1_outputGlbs, failedWrites, modelsToSegment,
             segmentIdx, segmentedFiles, overallSuccess, exitCode, firstRun>>
vars == <<detVars, sigVars, asmVars>>

(***************************************************************************)
(* Bounds of the model.                                                    *)
(***************************************************************************)
MaxModels == 2          \* at most this many input files
MaxInstanceLimit == 2   \* instance_limit ranges over 1..MaxInstanceLimit
MaxCallDepth == 4       \* nested calls of traverseNode the call stack has room for

(***************************************************************************)
(* Small helpers.                                                          *)
(***************************************************************************)
Abs(x) == IF x < 0 THEN -x ELSE x
Sign(x) == IF x < 0 THEN -1 ELSE 1
Min2(a, b) == IF a <= b THEN a ELSE b
Max2(a, b) == IF a >= b THEN a ELSE b
Tok(v) == ToString(v)
Range(s) == {s[i] : i \in DOMAIN s}

\* static_cast<size_t>(i) < v.size() with i >= 0: a valid 0-based index
ValidIndex(i, v) == i >= 0 /\ i < Len(v)
At(v, i) == v[i + 1]

(***************************************************************************)
(* glTF constants of CesiumGltf used by the source.                        *)
(***************************************************************************)
BYTE == 5120
UNSIGNED_BYTE == 5121
SHORT == 5122
UNSIGNED_SHORT == 5123
UNSIGNED_INT == 5125
FLOAT == 5126
DBL_MAX == 1000000      \* std::numeric_limits<double>::max(), beyond every coordinate
ExactEps == 0           \* the 1e-9 threshold, in units of 1e-5

computeNumberOfComponents(type) ==
    CASE type = "SCALAR" -> 1
      [] type = "VEC2" -> 2
      [] type = "VEC3" -> 3
      [] type = "VEC4" -> 4
      [] type = "MAT2" -> 4
      [] type = "MAT3" -> 9
      [] type = "MAT4" -> 16
      [] OTHER -> 0

computeByteSizeOfComponent(componentType) ==
    CASE componentType \in {BYTE, UNSIGNED_BYTE} -> 1
      [] componentType \in {SHORT, UNSIGNED_SHORT} -> 2
      [] componentType \in {UNSIGNED_INT, FLOAT} -> 4
      [] OTHER -> 0

\* CesiumGltf::AccessorView<T>(model, accessor).status() for sizeof(T) = sizeofT:
\* the library looks up the bufferView and the buffer, then compares the sizes
AccessorViewStatus(model, accessor, sizeofT) ==
    IF ~ValidIndex(accessor.bufferView, model.bufferViews)
    THEN "InvalidBufferViewIndex"
    ELSE
      LET bufferView == At(model.bufferViews, accessor.bufferView)
          accessorBytesPerStride ==
              computeNumberOfComponents(accessor.type)
                * computeByteSizeOfComponent(accessor.componentType)
          accessorByteStride == IF bufferView.byteStride > 0
                                THEN bufferView.byteStride
                                ELSE accessorBytesPerStride
      IN  IF ~ValidIndex(bufferView.buffer, model.buffers)
          THEN "InvalidBufferIndex"
          ELSE IF bufferView.byteOffset + bufferView.byteLength
                    > Len(At(model.buffers, bufferView.buffer).data)
          THEN "BufferViewTooSmall"
          ELSE IF sizeofT # accessorBytesPerStride
          THEN "WrongSizeT"
          ELSE IF accessorByteStride * accessor.count
                    > bufferView.byteLength - accessor.byteOffset
          THEN "BufferTooSmall"
          ELSE "Valid"

(***************************************************************************)
(* The hash (collision-free).                                              *)
(***************************************************************************)
\* seed ^= hasher(v) + 0x9e3779b9 + (seed << 6) + (seed >> 2), v a plain value
hash_combine(seed, v) == Append(seed, v)
\* the same, v being itself a hash value (a size_t computed by the engine)
hash_combine_hash(seed, h) == seed \o <<"(">> \o h \o <<")">>

\* view.data() with the length the caller gives the string_view: the bytes
\* of the buffer from the first element of the accessor on, count elements'
\* worth of them, read one after the other whatever the stride of the view
ViewData(model, accessor) ==
    LET bufferView == At(model.bufferViews, accessor.bufferView)
        start == bufferView.byteOffset + accessor.byteOffset
    IN  SubSeq(At(model.buffers, bufferView.buffer).data, start + 1,
               start + accessor.count
                         * computeNumberOfComponents(accessor.type)
                         * computeByteSizeOfComponent(accessor.componentType))

\* the bytes of a string_view in memory order, one token for every `size` of
\* them: the component value where they are the bytes of one value, else the
\* bytes themselves
FlattenTokens(bytes, size) ==
    [j \in 1..(Len(bytes) \div size) |->
        IF \A k \in 1..size :
               bytes[(j - 1) * size + k] = <<bytes[(j - 1) * size + 1][1], k - 1>>
        THEN Tok(bytes[(j - 1) * size + 1][1])
        ELSE ToString(SubSeq(bytes, (j - 1) * size + 1, j * size))]

\* std::hash<std::string_view> over `bytes`
HashStringView(bytes, size) == <<"bytes">> \o FlattenTokens(bytes, size)

\* glm::round(c / tolerance): round half away from zero
RoundDiv(c, tolerance) == Sign(c) * ((2 * Abs(c) + tolerance) \div (2 * tolerance))

RECURSIVE HashQuantized(_, _, _)
HashQuantized(seed, elements, tolerance) ==
    IF elements = <<>> THEN seed
    ELSE LET v == Head(elements)
             s1 == hash_combine(seed, Tok(RoundDiv(v[1], tolerance)))
             s2 == hash_combine(s1, Tok(RoundDiv(v[2], tolerance)))
             s3 == hash_combine(s2, Tok(RoundDiv(v[3], tolerance)))
         IN  HashQuantized(s3, Tail(elements), tolerance)

RECURSIVE HashDoubles(_, _)
HashDoubles(seed, values) ==
    IF values = <<>> THEN seed
    ELSE HashDoubles(hash_combine(seed, Tok(Head(values))), Tail(values))

\* the (type, componentType) pairs hashAccessorData has a typed view for
HasTypedView(accessor) ==
    \/ accessor.type = "VEC3" /\ accessor.componentType = FLOAT
    \/ accessor.type = "SCALAR" /\ accessor.componentType = UNSIGNED_INT
    \/ accessor.type = "VEC2" /\ accessor.componentType = FLOAT
    \/ accessor.type = "SCALAR" /\ accessor.componentType = UNSIGNED_SHORT

FallbackHash(model, accessor) ==
    LET s1 == hash_combine(<<>>, accessor.type)
        s2 == hash_combine(s1, Tok(accessor.componentType))
        s3 == hash_combine(s2, Tok(accessor.count))
        s4 == hash_combine(s3, Tok(accessor.normalized))
        s5 == IF accessor.min # <<>> THEN HashDoubles(s4, accessor.min)
              ELSE hash_combine(s4, "0xDECAFBAD")
        s6 == IF accessor.max # <<>> THEN HashDoubles(s5, accessor.max)
              ELSE hash_combine(s5, "0xBAADF00D")
    IN  hash_combine(s6, AccessorViewStatus(model, accessor, 1))

hashAccessorData(model, accessorIndex, attributeName, attributeSpecificTolerance) ==
    IF ~ValidIndex(accessorIndex, model.accessors)
    THEN hash_combine(<<>>, "-1")
    ELSE
      LET accessor == At(model.accessors, accessorIndex)
          numComponents == computeNumberOfComponents(accessor.type)
          componentSizeInBytes == computeByteSizeOfComponent(accessor.componentType)
      IN
        IF /\ attributeName = "NORMAL"
           /\ accessor.type = "VEC3"
           /\ accessor.componentType = FLOAT
           /\ attributeSpecificTolerance > ExactEps
           /\ AccessorViewStatus(model, accessor, 12) = "Valid"
        THEN HashQuantized(<<>>, accessor.data, attributeSpecificTolerance)
        ELSE IF AccessorViewStatus(model, accessor, 1) = "Valid"
        THEN HashStringView(ViewData(model, accessor), 1)
        ELSE IF /\ numComponents # 0
                /\ componentSizeInBytes # 0
                /\ HasTypedView(accessor)
                /\ AccessorViewStatus(model, accessor,
                                      numComponents * componentSizeInBytes)
                     = "Valid"
        THEN HashStringView(ViewData(model, accessor), componentSizeInBytes)
        ELSE FallbackHash(model, accessor)

(***************************************************************************)
(* Primitive and mesh signatures.  A primitive is                          *)
(*   [material, mode, indices, attributes, targets];                       *)
(* attributes is the sequence of <<name, accessor index>> pairs in the     *)
(* order in which the range-for over primitive.attributes yields them, and *)
(* targets is a sequence of such sequences.                                *)
(***************************************************************************)
\* one iteration of the attribute loop of calculatePrimitiveSignatureExact
ExactAttributeStep(model, seed, attr_pair) ==
    LET attrName == attr_pair[1]
        accessorIndexForAttribute == attr_pair[2]
        s0 == hash_combine(seed, attrName)
    IN  IF ValidIndex(accessorIndexForAttribute, model.accessors)
        THEN LET accessor == At(model.accessors, accessorIndexForAttribute)
                 s1 == hash_combine(s0, accessor.type)
                 s2 == hash_combine(s1, Tok(accessor.componentType))
                 s3 == hash_combine(s2, Tok(accessor.count))
                 s4 == hash_combine(s3, Tok(accessor.normalized))
             IN  hash_combine_hash(s4,
                     hashAccessorData(model, accessorIndexForAttribute, attrName, 0))
        ELSE hash_combine(s0, "-1")

\* one iteration of the inner morph-target loop (both signature functions)
MorphAttributeStep(model, seed, attr_pair) ==
    LET attrName == attr_pair[1]
        accessorIndexForMorph == attr_pair[2]
        s0 == hash_combine(seed, attrName)
    IN  IF ValidIndex(accessorIndexForMorph, model.accessors)
        THEN LET accessor == At(model.accessors, accessorIndexForMorph)
                 s1 == hash_combine(s0, accessor.type)
                 s2 == hash_combine(s1, Tok(accessor.componentType))
             IN  hash_combine_hash(s2,
                     hashAccessorData(model, accessorIndexForMorph, attrName, 0))
        ELSE hash_combine(s0, "-1")

RECURSIVE ExactAttributes(_, _, _)
ExactAttributes(model, seed, attributes) ==
    IF attributes = <<>> THEN seed
    ELSE ExactAttributes(model, ExactAttributeStep(model, seed, Head(attributes)),
                         Tail(attributes))

RECURSIVE MorphTarget(_, _, _)
MorphTarget(model, seed, target) ==
    IF target = <<>> THEN seed
    ELSE MorphTarget(model, MorphAttributeStep(model, seed, Head(target)), Tail(target))

RECURSIVE MorphTargets(_, _, _)
MorphTargets(model, seed, targets) ==
    IF targets = <<>> THEN seed
    ELSE MorphTargets(model, MorphTarget(model, seed, Head(targets)), Tail(targets))

calculatePrimitiveSignatureExact(model, primitive) ==
    LET s1 == hash_combine(<<>>, Tok(primitive.material))
        s2 == hash_combine(s1, Tok(primitive.mode))
        s3 == IF ValidIndex(primitive.indices, model.accessors)
              THEN LET indicesAccessor == At(model.accessors, primitive.indices)
                       a == hash_combine(s2, indicesAccessor.type)
                       b == hash_combine(a, Tok(indicesAccessor.componentType))
                       c == hash_combine(b, Tok(indicesAccessor.count))
                   IN  hash_combine_hash(c,
                           hashAccessorData(model, primitive.indices, "INDICES", 0))
              ELSE hash_combine(hash_combine(hash_combine(hash_combine(
                       s2, "-1"), "-1"), "0"), "-1")
        s4 == ExactAttributes(model, s3, primitive.attributes)
    IN  MorphTargets(model, s4, primitive.targets)

\* primitive.attributes.find("POSITION"): the accessor index, -1 when absent
FindAttribute(attributes, name) ==
    IF \E i \in DOMAIN attributes : attributes[i][1] = name
    THEN attributes[CHOOSE i \in DOMAIN attributes : attributes[i][1] = name][2]
    ELSE -1

\* one iteration of the attribute loop of calculatePrimitiveSignature (tolerance)
ToleranceAttributeStep(model, seed, attr_pair, skipAttributes, normalTolerance) ==
    LET attrName == attr_pair[1]
        accessorIndexForAttribute == attr_pair[2]
        skipDataHashingForThisAttribute ==
            attrName = "POSITION" \/ attrName \in skipAttributes
        attributeSpecificToleranceForHashing ==
            IF ~skipDataHashingForThisAttribute
               /\ attrName = "NORMAL" /\ normalTolerance > ExactEps
            THEN normalTolerance ELSE 0
    IN  IF skipDataHashingForThisAttribute
        THEN hash_combine(seed, attrName)
        ELSE hash_combine_hash(seed,
                 hashAccessorData(model, accessorIndexForAttribute, attrName,
                                  attributeSpecificToleranceForHashing))

RECURSIVE ToleranceAttributes(_, _, _, _, _)
ToleranceAttributes(model, seed, attributes, skipAttributes, normalTolerance) ==
    IF attributes = <<>> THEN seed
    ELSE ToleranceAttributes(model,
             ToleranceAttributeStep(model, seed, Head(attributes), skipAttributes,
                                    normalTolerance),
             Tail(attributes), skipAttributes, normalTolerance)

calculatePrimitiveSignature(model, primitive, tolerance, skipAttributes, normalTolerance) ==
    IF tolerance <= ExactEps
    THEN calculatePrimitiveSignatureExact(model, primitive)
    ELSE
      LET s1 == hash_combine(<<>>, Tok(primitive.material))
          s2 == hash_combine(s1, Tok(primitive.mode))
          positionAccessorIndex == FindAttribute(primitive.attributes, "POSITION")
          s3 == IF ValidIndex(positionAccessorIndex, model.accessors)
                THEN hash_combine(s2, Tok(At(model.accessors, positionAccessorIndex).count))
                ELSE hash_combine(s2, "-1")
          s4 == IF ValidIndex(primitive.indices, model.accessors)
                THEN hash_combine(s3, Tok(At(model.accessors, primitive.indices).count))
                ELSE hash_combine(s3, "0")
          s5 == ToleranceAttributes(model, s4, primitive.attributes, skipAttributes,
                                    normalTolerance)
      IN  MorphTargets(model, s5, primitive.targets)

RECURSIVE MeshPrimitives(_, _, _, _, _, _)
MeshPrimitives(model, seed, primitives, tolerance, skipAttributes, normalTolerance) ==
    IF primitives = <<>> THEN seed
    ELSE MeshPrimitives(model,
             hash_combine_hash(seed,
                 calculatePrimitiveSignature(model, Head(primitives), tolerance,
                                             skipAttributes, normalTolerance)),
             Tail(primitives), tolerance, skipAttributes, normalTolerance)

calculateMeshSignature(model, mesh, tolerance, skipAttributes, normalTolerance) ==
    MeshPrimitives(model, <<>>, mesh.primitives, tolerance, skipAttributes,
                   normalTolerance)

(***************************************************************************)
(* Bounding boxes (utilities.h, utilities.cpp).                            *)
(***************************************************************************)
\* a default-constructed BoundingBox: min = max(), max = lowest(): not valid
InvalidBox == [min |-> <<DBL_MAX, DBL_MAX, DBL_MAX>>,
               max |-> <<-DBL_MAX, -DBL_MAX, -DBL_MAX>>]

isValid(box) ==
    box.min[1] <= box.max[1] /\ box.min[2] <= box.max[2] /\ box.min[3] <= box.max[3]

RECURSIVE ScanVertices(_, _)
\* the loop of getPrimitiveBoundingBox over the vertices after the first
ScanVertices(box, positions) ==
    IF positions = <<>> THEN box
    ELSE LET pos == Head(positions)
         IN  ScanVertices(
                 [min |-> <<Min2(box.min[1], pos[1]), Min2(box.min[2], pos[2]),
                            Min2(box.min[3], pos[3])>>,
                  max |-> <<Max2(box.max[1], pos[1]), Max2(box.max[2], pos[2]),
                            Max2(box.max[3], pos[3])>>],
                 Tail(positions))

getPrimitiveBoundingBox(model, primitive) ==
    LET positionAccessorIndex == FindAttribute(primitive.attributes, "POSITION")
    IN  IF ~ValidIndex(positionAccessorIndex, model.accessors) THEN InvalidBox
        ELSE
          LET positionAccessor == At(model.accessors, positionAccessorIndex)
          IN  IF /\ Len(positionAccessor.min) >= 3
                 /\ Len(positionAccessor.max) >= 3
              THEN [min |-> SubSeq(positionAccessor.min, 1, 3),
                    max |-> SubSeq(positionAccessor.max, 1, 3)]
              ELSE IF \/ AccessorViewStatus(model, positionAccessor, 12) # "Valid"
                      \/ positionAccessor.count = 0
              THEN InvalidBox
              ELSE LET firstPos == Head(positionAccessor.data)
                   IN  ScanVertices([min |-> firstPos, max |-> firstPos],
                                    Tail(positionAccessor.data))

\* the per-primitive boxes of a mesh, as the loops over mesh.primitives build them
PrimitiveBoundingBoxes(model, mesh) ==
    [i \in 1..Len(mesh.primitives) |-> getPrimitiveBoundingBox(model, mesh.primitives[i])]

areBoundingBoxesSimilar(bb1, bb2, tolerance) ==
    IF ~isValid(bb1) \/ ~isValid(bb2) THEN FALSE
    ELSE IF \/ Abs(bb1.min[1] - bb2.min[1]) > tolerance
            \/ Abs(bb1.min[2] - bb2.min[2]) > tolerance
            \/ Abs(bb1.min[3] - bb2.min[3]) > tolerance
    THEN FALSE
    ELSE IF \/ Abs(bb1.max[1] - bb2.max[1]) > tolerance
            \/ Abs(bb1.max[2] - bb2.max[2]) > tolerance
            \/ Abs(bb1.max[3] - bb2.max[3]) > tolerance
    THEN FALSE
    ELSE TRUE

(***************************************************************************)
(* Transforms.  A matrix is [a, b] (x |-> a * x + b); vectors keep their   *)
(* three components and quaternions are [w, x, y, z] records.              *)
(***************************************************************************)
Mat(a, b) == [a |-> a, b |-> b]
IdentityMat == Mat(1, 0)
\* m * n of glm: apply n first
MatMul(m, n) == Mat(m.a * n.a, m.a * n.b + m.b)
translate(v) == Mat(1, v[1])
scaleMat(v) == Mat(v[1], 0)
\* glm::dquat(w, x, y, z)
Quat(w, x, y, z) == [w |-> w, x |-> x, y |-> y, z |-> z]
IdentityQuat == Quat(1, 0, 0, 0)
\* glm::normalize of a quaternion with one non-zero component
normalize(q) ==
    LET n == Abs(q.w) + Abs(q.x) + Abs(q.y) + Abs(q.z)
    IN  Quat(q.w \div n, q.x \div n, q.y \div n, q.z \div n)
\* glm::mat4_cast: entry [0][0] is 1 - 2 (y^2 + z^2)
mat4_cast(q) == Mat(1 - 2 * (q.y * q.y + q.z * q.z), 0)

\* TransformComponents::fromMat4 (glm::decompose, then normalize)
fromMat4(matrix) ==
    [translation |-> <<matrix.b, 0, 0>>,
     rotation |-> normalize(IF matrix.a < 0 THEN Quat(0, 0, 0, 1) ELSE IdentityQuat),
     scale |-> <<Abs(matrix.a), Abs(matrix.a), Abs(matrix.a)>>]

\* TransformComponents::toMat4
toMat4(tc) ==
    MatMul(MatMul(translate(tc.translation), mat4_cast(tc.rotation)), scaleMat(tc.scale))

getLocalTransformMatrix(node) ==
    LET hasTranslation == node.translation # <<>>
        hasRotation == node.rotation # <<>>
        hasScale == node.scale # <<>>
    IN  IF hasTranslation \/ hasRotation \/ hasScale
        THEN LET translation == IF hasTranslation /\ Len(node.translation) = 3
                                THEN node.translation ELSE <<0, 0, 0>>
                 rotation == IF hasRotation /\ Len(node.rotation) = 4
                             THEN normalize(Quat(node.rotation[4], node.rotation[1],
                                                 node.rotation[2], node.rotation[3]))
                             ELSE IdentityQuat
                 scale == IF hasScale /\ Len(node.scale) = 3
                          THEN node.scale ELSE <<1, 1, 1>>
             IN  MatMul(MatMul(translate(translation), mat4_cast(rotation)),
                        scaleMat(scale))
        ELSE IF node.matrix # <<>>
        THEN IF Len(node.matrix) = 16
             THEN Mat(node.matrix[1], node.matrix[13])
             ELSE IdentityMat
        ELSE IdentityMat

(***************************************************************************)
(* The input files.  The content of a file is named by a string; readGltf  *)
(* gives the glTF document the reader parses from it.  The documents cover *)
(* the scenarios of the specification: identical cubes, cubes whose        *)
(* POSITION data differ slightly or much, a node hierarchy, inbound        *)
(* EXT_mesh_gpu_instancing, a primitive without POSITION, two scenes.      *)
(***************************************************************************)
Accessor(type, componentType, count, min, max, data) ==
    [type |-> type, componentType |-> componentType, count |-> count,
     normalized |-> FALSE, min |-> min, max |-> max, bufferView |-> 0,
     data |-> data]

\* model.accessors of every document (0-based indices in the comments)
LibAccessors == <<
    \* 0: POSITION of the cube, with min/max
    Accessor("VEC3", FLOAT, 2, <<0, 0, 0>>, <<100, 100, 100>>,
             << <<0, 0, 0>>, <<100, 100, 100>> >>),
    \* 1: POSITION of the cube moved by 1e-5 per coordinate, no min/max
    Accessor("VEC3", FLOAT, 2, <<>>, <<>>,
             << <<1, 1, 1>>, <<101, 101, 101>> >>),
    \* 2: POSITION of a five times larger cube, with min/max
    Accessor("VEC3", FLOAT, 2, <<0, 0, 0>>, <<500, 500, 500>>,
             << <<0, 0, 0>>, <<500, 500, 500>> >>),
    \* 3: indices
    Accessor("SCALAR", UNSIGNED_SHORT, 3, <<>>, <<>>, << <<0>>, <<1>>, <<0>> >>),
    \* 4, 5: two COLOR_0 arrays with different values
    Accessor("VEC4", FLOAT, 2, <<>>, <<>>, << <<1, 0, 0, 1>>, <<1, 0, 0, 1>> >>),
    Accessor("VEC4", FLOAT, 2, <<>>, <<>>, << <<0, 1, 0, 1>>, <<0, 0, 1, 1>> >>),
    \* 6, 7, 8: TRANSLATION, ROTATION (x, y, z, w), SCALE of two instances
    Accessor("VEC3", FLOAT, 2, <<>>, <<>>, << <<20, 0, 0>>, <<30, 0, 0>> >>),
    Accessor("VEC4", FLOAT, 2, <<>>, <<>>, << <<0, 0, 0, 1>>, <<0, 0, 1, 0>> >>),
    Accessor("VEC3", FLOAT, 2, <<>>, <<>>, << <<1, 1, 1>>, <<3, 3, 3>> >>),
    \* 9: NORMAL
    Accessor("VEC3", FLOAT, 2, <<>>, <<>>, << <<0, 0, 1>>, <<0, 0, 1>> >>),
    \* 10: indices of the same count as accessor 3, behind bufferView 4
    [Accessor("SCALAR", UNSIGNED_SHORT, 3, <<>>, <<>>, << <<0>>, <<1>>, <<1>> >>)
        EXCEPT !.bufferView = 4],
    \* 11, 12: the POSITION of accessor 0 and the NORMAL of accessor 9, vertex by
    \* vertex in the interleaved bufferView 3
    [Accessor("VEC3", FLOAT, 2, <<0, 0, 0>>, <<100, 100, 100>>,
              << <<0, 0, 0>>, <<100, 100, 100>> >>) EXCEPT !.bufferView = 3],
    [Accessor("VEC3", FLOAT, 2, <<>>, <<>>, << <<0, 0, 1>>, <<0, 0, 1>> >>)
        EXCEPT !.bufferView = 3],
    \* 13: a SCALE for one instance, the second element of accessor 8
    Accessor("VEC3", FLOAT, 1, <<>>, <<>>, << <<3, 3, 3>> >>),
    \* 14: an accessor behind bufferView 2, whose buffer the file does not have
    [Accessor("VEC3", FLOAT, 2, <<>>, <<>>, <<>>) EXCEPT !.bufferView = 2] >>

Primitive(indices, attributes) ==
    [material |-> 0, mode |-> 4, indices |-> indices, attributes |-> attributes,
     targets |-> <<>>]

\* a one-primitive mesh whose POSITION is accessor `position`
CubeMesh(position) ==
    [name |-> "cube",
     primitives |-> << Primitive(3, << <<"NORMAL", 9>>, <<"POSITION", position>> >>) >>]

\* the cube of CubeMesh(0) with its vertex attributes interleaved
InterleavedCube ==
    [name |-> "interleaved cube",
     primitives |-> << Primitive(3, << <<"NORMAL", 12>>, <<"POSITION", 11>> >>) >>]

\* a mesh whose only primitive has no POSITION attribute
NoPositionMesh ==
    [name |-> "lines", primitives |-> << Primitive(3, << <<"NORMAL", 9>> >>) >>]

\* the larger cube with the unlit material 1 (see LibMaterials)
BigCubeUnlit ==
    [name |-> "big cube",
     primitives |-> << [Primitive(3, << <<"NORMAL", 9>>, <<"POSITION", 2>> >>)
                           EXCEPT !.material = 1] >>]

\* a mesh whose second primitive has material 2, which cannot be copied
LampMesh ==
    [name |-> "lamp #1",
     primitives |-> << Primitive(3, << <<"COLOR_0", 4>>, <<"NORMAL", 9>>,
                                       <<"POSITION", 0>> >>),
                       [Primitive(3, << <<"NORMAL", 9>>, <<"POSITION", 0>> >>)
                           EXCEPT !.material = 2] >>]

\* a mesh one of whose attributes is accessor 14, which cannot be copied
BrokenMesh ==
    [name |-> "broken",
     primitives |-> << Primitive(3, << <<"NORMAL", 9>>, <<"POSITION", 0>>,
                                       <<"_EXTRA", 14>> >>) >>]

\* a mesh that reads the accessor of its indices as a vertex attribute too; its
\* material 1 shares texture 0 with material 2
ProbeMesh ==
    [name |-> "probe",
     primitives |-> << [Primitive(3, << <<"NORMAL", 9>>, <<"POSITION", 0>>,
                                        <<"_ID", 3>> >>)
                           EXCEPT !.material = 1] >>]

Node(mesh, children, translation, rotation, scale, matrix, instancing) ==
    [mesh |-> mesh, children |-> children, translation |-> translation,
     rotation |-> rotation, scale |-> scale, matrix |-> matrix,
     instancing |-> instancing]

\* node.extensions["EXT_mesh_gpu_instancing"], parsed by the reader into the
\* typed ExtensionExtMeshGpuInstancing; <<>> when the node has no such extension
GpuInstancing == << [attributes |->
                       << <<"ROTATION", 7>>, <<"SCALE", 8>>, <<"TRANSLATION", 6>> >>] >>

\* TRANSLATION and ROTATION of two instances, SCALE of one
UnevenInstancing == << [attributes |->
                          << <<"ROTATION", 7>>, <<"SCALE", 13>>, <<"TRANSLATION", 6>> >>] >>

\* the extension present with no attribute: no accessor gives a count
NoInstancing == << [attributes |-> <<>>] >>

PlainNode(mesh, translation) == Node(mesh, <<>>, translation, <<>>, <<>>, <<>>, <<>>)

(***************************************************************************)
(* The binary chunk of the input files.  A byte is <<v, k>>: byte k of the *)
(* encoding of the component value v; std::byte(0) is <<0, 0>>.  Buffer 0  *)
(* holds the data of the accessors one after the other, each at a multiple *)
(* of 4, behind bufferView 0, then the bytes of one embedded image behind  *)
(* bufferView 1, then two vertices of 24 bytes each (POSITION, NORMAL)     *)
(* behind bufferView 3 and a second array of indices behind bufferView 4.  *)
(***************************************************************************)
ZeroByte == <<0, 0>>
ComponentBytes(v, size) == [k \in 1..size |-> <<v, k - 1>>]

RECURSIVE ElementBytes(_, _)
ElementBytes(element, size) ==
    IF element = <<>> THEN <<>>
    ELSE ComponentBytes(Head(element), size) \o ElementBytes(Tail(element), size)

RECURSIVE ElementsBytes(_, _)
ElementsBytes(elements, size) ==
    IF elements = <<>> THEN <<>>
    ELSE ElementBytes(Head(elements), size) \o ElementsBytes(Tail(elements), size)

\* padding = (4 - (currentOffset % 4)) % 4 of addDataToBuffer
Padding(currentOffset) == (4 - (currentOffset % 4)) % 4
Padded(bytes) == bytes \o [k \in 1..Padding(Len(bytes)) |-> ZeroByte]

\* accessor.byteOffset of each library accessor.  Those of bufferView 0 start
\* behind the accessors before them, at a multiple of 4 (the six bytes of the
\* indices are followed by two bytes of padding); the NORMAL of a vertex of
\* bufferView 3 follows the 12 bytes of its POSITION
PackedOffset == <<0, 24, 48, 72, 80, 112, 144, 168, 200, 224, 0, 0, 12, 212, 0>>
PackedAccessorsLength == 248

ImageLength == 3
\* the length of the whole chunk
BufferLength == PackedAccessorsLength + ImageLength + 1 + 60 + 6

\* buffer.cesium.data of buffer 0: the chunk, byte by byte
BufferData == <<
    \* 0: POSITION of the cube
    <<0, 0>>, <<0, 1>>, <<0, 2>>, <<0, 3>>,
    <<0, 0>>, <<0, 1>>, <<0, 2>>, <<0, 3>>,
    <<0, 0>>, <<0, 1>>, <<0, 2>>, <<0, 3>>,
    <<100, 0>>, <<100, 1>>, <<100, 2>>, <<100, 3>>,
    <<100, 0>>, <<100, 1>>, <<100, 2>>, <<100, 3>>,
    <<100, 0>>, <<100, 1>>, <<100, 2>>, <<100, 3>>,
    \* 1: POSITION moved by 1e-5
    <<1, 0>>, <<1, 1>>, <<1, 2>>, <<1, 3>>,
    <<1, 0>>, <<1, 1>>, <<1, 2>>, <<1, 3>>,
    <<1, 0>>, <<1, 1>>, <<1, 2>>, <<1, 3>>,
    <<101, 0>>, <<101, 1>>, <<101, 2>>, <<101, 3>>,
    <<101, 0>>, <<101, 1>>, <<101, 2>>, <<101, 3>>,
    <<101, 0>>, <<101, 1>>, <<101, 2>>, <<101, 3>>,
    \* 2: POSITION of the larger cube
    <<0, 0>>, <<0, 1>>, <<0, 2>>, <<0, 3>>,
    <<0, 0>>, <<0, 1>>, <<0, 2>>, <<0, 3>>,
    <<0, 0>>, <<0, 1>>, <<0, 2>>, <<0, 3>>,
    <<500, 0>>, <<500, 1>>, <<500, 2>>, <<500, 3>>,
    <<500, 0>>, <<500, 1>>, <<500, 2>>, <<500, 3>>,
    <<500, 0>>, <<500, 1>>, <<500, 2>>, <<500, 3>>,
    \* 3: indices, and two bytes of padding
    <<0, 0>>, <<0, 1>>,
    <<1, 0>>, <<1, 1>>,
    <<0, 0>>, <<0, 1>>,
    ZeroByte,
    ZeroByte,
    \* 4: COLOR_0
    <<1, 0>>, <<1, 1>>, <<1, 2>>, <<1, 3>>,
    <<0, 0>>, <<0, 1>>, <<0, 2>>, <<0, 3>>,
    <<0, 0>>, <<0, 1>>, <<0, 2>>, <<0, 3>>,
    <<1, 0>>, <<1, 1>>, <<1, 2>>, <<1, 3>>,
    <<1, 0>>, <<1, 1>>, <<1, 2>>, <<1, 3>>,
    <<0, 0>>, <<0, 1>>, <<0, 2>>, <<0, 3>>,
    <<0, 0>>, <<0, 1>>, <<0, 2>>, <<0, 3>>,
    <<1, 0>>, <<1, 1>>, <<1, 2>>, <<1, 3>>,
    \* 5: COLOR_0
    <<0, 0>>, <<0, 1>>, <<0, 2>>, <<0, 3>>,
    <<1, 0>>, <<1, 1>>, <<1, 2>>, <<1, 3>>,
    <<0, 0>>, <<0, 1>>, <<0, 2>>, <<0, 3>>,
    <<1, 0>>, <<1, 1>>, <<1, 2>>, <<1, 3>>,
    <<0, 0>>, <<0, 1>>, <<0, 2>>, <<0, 3>>,
    <<0, 0>>, <<0, 1>>, <<0, 2>>, <<0, 3>>,
    <<1, 0>>, <<1, 1>>, <<1, 2>>, <<1, 3>>,
    <<1, 0>>, <<1, 1>>, <<1, 2>>, <<1, 3>>,
    \* 6: TRANSLATION
    <<20, 0>>, <<20, 1>>, <<20, 2>>, <<20, 3>>,
    <<0, 0>>, <<0, 1>>, <<0, 2>>, <<0, 3>>,
    <<0, 0>>, <<0, 1>>, <<0, 2>>, <<0, 3>>,
    <<30, 0>>, <<30, 1>>, <<30, 2>>, <<30, 3>>,
    <<0, 0>>, <<0, 1>>, <<0, 2>>, <<0, 3>>,
    <<0, 0>>, <<0, 1>>, <<0, 2>>, <<0, 3>>,
    \* 7: ROTATION
    <<0, 0>>, <<0, 1>>, <<0, 2>>, <<0, 3>>,
    <<0, 0>>, <<0, 1>>, <<0, 2>>, <<0, 3>>,
    <<0, 0>>, <<0, 1>>, <<0, 2>>, <<0, 3>>,
    <<1, 0>>, <<1, 1>>, <<1, 2>>, <<1, 3>>,
    <<0, 0>>, <<0, 1>>, <<0, 2>>, <<0, 3>>,
    <<0, 0>>, <<0, 1>>, <<0, 2>>, <<0, 3>>,
    <<1, 0>>, <<1, 1>>, <<1, 2>>, <<1, 3>>,
    <<0, 0>>, <<0, 1>>, <<0, 2>>, <<0, 3>>,
    \* 8: SCALE
    <<1, 0>>, <<1, 1>>, <<1, 2>>, <<1, 3>>,
    <<1, 0>>, <<1, 1>>, <<1, 2>>, <<1, 3>>,
    <<1, 0>>, <<1, 1>>, <<1, 2>>, <<1, 3>>,
    <<3, 0>>, <<3, 1>>, <<3, 2>>, <<3, 3>>,
    <<3, 0>>, <<3, 1>>, <<3, 2>>, <<3, 3>>,
    <<3, 0>>, <<3, 1>>, <<3, 2>>, <<3, 3>>,
    \* 9: NORMAL
    <<0, 0>>, <<0, 1>>, <<0, 2>>, <<0, 3>>,
    <<0, 0>>, <<0, 1>>, <<0, 2>>, <<0, 3>>,
    <<1, 0>>, <<1, 1>>, <<1, 2>>, <<1, 3>>,
    <<0, 0>>, <<0, 1>>, <<0, 2>>, <<0, 3>>,
    <<0, 0>>, <<0, 1>>, <<0, 2>>, <<0, 3>>,
    <<1, 0>>, <<1, 1>>, <<1, 2>>, <<1, 3>>,
    \* the image, and one byte of padding
    <<"png", 0>>, <<"png", 1>>, <<"png", 2>>, <<0, 0>>,
    \* vertex 0: POSITION, NORMAL
    <<0, 0>>, <<0, 1>>, <<0, 2>>, <<0, 3>>,
    <<0, 0>>, <<0, 1>>, <<0, 2>>, <<0, 3>>,
    <<0, 0>>, <<0, 1>>, <<0, 2>>, <<0, 3>>,
    <<0, 0>>, <<0, 1>>, <<0, 2>>, <<0, 3>>,
    <<0, 0>>, <<0, 1>>, <<0, 2>>, <<0, 3>>,
    <<1, 0>>, <<1, 1>>, <<1, 2>>, <<1, 3>>,
    \* vertex 1: POSITION, NORMAL
    <<100, 0>>, <<100, 1>>, <<100, 2>>, <<100, 3>>,
    <<100, 0>>, <<100, 1>>, <<100, 2>>, <<100, 3>>,
    <<100, 0>>, <<100, 1>>, <<100, 2>>, <<100, 3>>,
    <<0, 0>>, <<0, 1>>, <<0, 2>>, <<0, 3>>,
    <<0, 0>>, <<0, 1>>, <<0, 2>>, <<0, 3>>,
    <<1, 0>>, <<1, 1>>, <<1, 2>>, <<1, 3>>,
    \* twelve bytes the view keeps behind its last vertex
    <<0, 0>>, <<0, 0>>, <<0, 0>>, <<0, 0>>,
    <<0, 0>>, <<0, 0>>, <<0, 0>>, <<0, 0>>,
    <<0, 0>>, <<0, 0>>, <<0, 0>>, <<0, 0>>,
    \* 10: the second indices
    <<0, 0>>, <<0, 1>>, <<1, 0>>, <<1, 1>>, <<1, 0>>, <<1, 1>> >>

\* the accessors as the reader yields them: accessor.byteOffset inside bufferView 0
PlacedAccessors ==
    [n \in DOMAIN LibAccessors |->
        [byteOffset |-> PackedOffset[n]] @@ LibAccessors[n]]

\* model.buffers
LibBuffers == << [byteLength |-> BufferLength, data |-> BufferData, uri |-> ""] >>

\* model.bufferViews; byteStride 0 and target 0 stand for "not set"
LibBufferViews == <<
    [buffer |-> 0, byteOffset |-> 0, byteLength |-> PackedAccessorsLength,
     byteStride |-> 0, target |-> 0],
    [buffer |-> 0, byteOffset |-> PackedAccessorsLength,
     byteLength |-> ImageLength, byteStride |-> 0, target |-> 0],
    \* 2: a view into a buffer the file does not have
    [buffer |-> 5, byteOffset |-> 0, byteLength |-> 4, byteStride |-> 0, target |-> 0],
    \* 3: interleaved vertices
    [buffer |-> 0, byteOffset |-> PackedAccessorsLength + ImageLength + 1,
     byteLength |-> 60, byteStride |-> 24, target |-> 0],
    \* 4: the second indices
    [buffer |-> 0, byteOffset |-> PackedAccessorsLength + ImageLength + 1 + 60,
     byteLength |-> 6, byteStride |-> 0, target |-> 0] >>

\* model.images, model.samplers, model.textures
LibImages == << [bufferView |-> 1, uri |-> ""],
                [bufferView |-> 2, uri |-> ""] >>
LibSamplers == << [magFilter |-> 9729] >>
LibTextures == << [sampler |-> 0, source |-> 0],
                  [sampler |-> 0, source |-> 1] >>

\* a material: its extension keys in the iteration order of the extension map
\* and the indices of its five texture infos (base colour, metallic-roughness,
\* normal, occlusion, emissive), -1 for an absent one
Material(extensions, textureInfos) ==
    [extensions |-> extensions, textureInfos |-> textureInfos]

\* model.materials
LibMaterials == <<
    \* 0: no texture, no extension
    Material(<<>>, <<-1, -1, -1, -1, -1>>),
    \* 1: unlit, base colour texture 0
    Material(<<"KHR_materials_unlit">>, <<0, -1, -1, -1, -1>>),
    \* 2: emissive strength, base colour texture 0, emissive texture 1 whose
    \*    image cannot be copied
    Material(<<"KHR_materials_emissive_strength">>, <<0, -1, -1, -1, 1>>) >>

Document(scene, scenes, nodes, meshes) ==
    [scene |-> scene, scenes |-> scenes, nodes |-> nodes, meshes |-> meshes,
     accessors |-> PlacedAccessors, bufferViews |-> LibBufferViews,
     buffers |-> LibBuffers, materials |-> LibMaterials, textures |-> LibTextures,
     samplers |-> LibSamplers, images |-> LibImages,
     extensionsUsed |-> <<>>, extensionsRequired |-> <<>>]

Contents == {"cubeA", "cubeA10", "cubeB", "twoCubes", "extFar", "extPlus2",
             "extNone", "noPos", "multiScene"}

\* the glTF JSON of a file; a node property the JSON leaves out is <<>>
GltfJson(content) ==
    CASE content = "cubeA" ->
           Document(0, << <<0>> >>, << PlainNode(0, <<>>) >>, << CubeMesh(0) >>)
      [] content = "cubeA10" ->
           Document(0, << <<0>> >>, << PlainNode(0, <<10, 0, 0>>) >>, << CubeMesh(0) >>)
      [] content = "cubeB" ->
           Document(0, << <<0>> >>, << PlainNode(0, <<>>) >>, << CubeMesh(1) >>)
      [] content = "twoCubes" ->
           Document(-1, << <<0>> >>,
                    << Node(-1, <<1, 2>>, <<5, 0, 0>>, <<>>, <<2, 2, 2>>, <<>>, <<>>),
                       Node(0, <<>>, <<>>, <<>>, <<>>,
                            <<1, 0, 0, 0,  0, 1, 0, 0,  0, 0, 1, 0,  3, 0, 0, 1>>, <<>>),
                       Node(1, <<>>, <<7, 0, 0>>, <<0, 0, 1, 0>>, <<>>, <<>>, <<>>) >>,
                    << CubeMesh(0), CubeMesh(2) >>)
      [] content = "extFar" ->
           Document(0, << <<0>> >>,
                    << Node(0, <<>>, <<4, 0, 0>>, <<>>, <<>>, <<>>, GpuInstancing) >>,
                    << CubeMesh(2) >>)
      [] content = "extPlus2" ->
           Document(0, << <<0>> >>,
                    << Node(0, <<1>>, <<2, 0, 0>>, <<>>, <<2, 2, 2>>, <<>>, GpuInstancing),
                       Node(0, <<2>>, <<1, 0, 0>>, <<>>, <<>>, <<>>, <<>>),
                       PlainNode(0, <<>>) >>,
                    << CubeMesh(0) >>)
      [] content = "extNone" ->
           Document(0, << <<0>> >>,
                    << Node(0, <<1>>, <<>>, <<>>, <<>>, <<>>, NoInstancing),
                       PlainNode(0, <<8, 0, 0>>) >>,
                    << CubeMesh(0) >>)
      [] content = "noPos" ->
           Document(0, << <<0>> >>, << PlainNode(0, <<>>) >>, << NoPositionMesh >>)
      [] content = "multiScene" ->
           Document(1, << <<0>>, <<1>> >>,
                    << PlainNode(0, <<>>), PlainNode(0, <<6, 0, 0>>) >>,
                    << CubeMesh(0) >>)
      [] content = "bigCubeUnlit" ->
           Document(0, << <<0>> >>, << PlainNode(0, <<9, 0, 0>>) >>, << BigCubeUnlit >>)
      [] content = "lamp" ->
           Document(0, << <<0, 1>> >>,
                    << PlainNode(0, <<>>), PlainNode(1, <<3, 0, 0>>) >>,
                    << LampMesh, ProbeMesh >>)
      [] content = "extUneven" ->
           Document(0, << <<0>> >>,
                    << Node(0, <<>>, <<4, 0, 0>>, <<>>, <<>>, <<>>, UnevenInstancing) >>,
                    << CubeMesh(0) >>)
      [] content = "broken" ->
           Document(0, << <<0, 1>> >>,
                    << PlainNode(0, <<>>), PlainNode(1, <<3, 0, 0>>) >>,
                    << BrokenMesh, CubeMesh(2) >>)
      [] content = "cycle" ->
           Document(0, << <<0>> >>,
                    << Node(0, <<1>>, <<1, 0, 0>>, <<>>, <<>>, <<>>, <<>>),
                       Node(-1, <<0>>, <<>>, <<>>, <<>>, <<>>, <<>>) >>,
                    << CubeMesh(0) >>)
      [] content = "shared" ->
           Document(0, << <<0, 1>> >>,
                    << Node(-1, <<2>>, <<1, 0, 0>>, <<>>, <<>>, <<>>, <<>>),
                       Node(-1, <<2>>, <<2, 0, 0>>, <<>>, <<>>, <<>>, <<>>),
                       PlainNode(0, <<>>) >>,
                    << CubeMesh(0) >>)
      [] content = "interleaved" ->
           Document(0, << <<0>> >>, << PlainNode(0, <<>>) >>, << InterleavedCube >>)
      \* a GLB that an earlier write left in the output directory
      [] OTHER -> outputDirectory[content].document

\* CesiumGltf::Node as the reader fills it: a property the JSON leaves out
\* keeps the default of the structure: translation {0, 0, 0}, rotation
\* {0, 0, 0, 1}, scale {1, 1, 1} and the identity matrix (tileset_writer.cpp
\* reads the four vectors of every node it is given)
readNode(node) ==
    [node EXCEPT !.translation = IF @ = <<>> THEN <<0, 0, 0>> ELSE @,
                 !.rotation = IF @ = <<>> THEN <<0, 0, 0, 1>> ELSE @,
                 !.scale = IF @ = <<>> THEN <<1, 1, 1>> ELSE @,
                 !.matrix = IF @ = <<>>
                            THEN <<1, 0, 0, 0,  0, 1, 0, 0,  0, 0, 1, 0,  0, 0, 0, 1>>
                            ELSE @]

\* CesiumGltfReader::GltfReader::readGltf on the bytes of a file
readGltf(content) ==
    [GltfJson(content) EXCEPT !.nodes = [n \in DOMAIN @ |-> readNode(@[n])]]

\* std::filesystem::file_size of a file with that content
FileSize(content) ==
    CASE content \in {"cubeA", "cubeA10", "cubeB"} -> 1000
      [] content = "twoCubes" -> 2000
      [] content = "extFar" -> 1500
      [] content = "extPlus2" -> 1800
      [] content = "extNone" -> 1600
      [] content = "noPos" -> 900
      [] content = "multiScene" -> 1200
      [] content = "bigCubeUnlit" -> 1100
      [] content = "lamp" -> 2500
      [] content = "interleaved" -> 1300
      [] content = "broken" -> 1500
      [] content = "cycle" -> 1600
      [] content = "shared" -> 1700
      [] content = "extUneven" -> 1400
      [] OTHER -> outputDirectory[content].size

\* the paths discoverGlbFiles can return, in the order of std::set<path>
Paths == << <<"a", "x.glb">>, <<"b", "x.glb">>, <<"b", "y.glb">> >>
\* filePath.filename()
filename(path) == path[2]

(***************************************************************************)
(* Model loader (utilities.cpp, glb_reader.cpp).                           *)
(***************************************************************************)
\* file = [path, content].  With USE_OPENSSL_SHA256 the digest of the bytes,
\* else the placeholder built from file size and file name.
calculateFileSHA256(file, openssl) ==
    IF openssl
    THEN <<"sha256", file.content>>
    ELSE <<"pseudo_sha256_", Tok(FileSize(file.content)), filename(file.path)>>

\* GlbReader::readGlb: the LoadedGltfModel of a file; `content` stands for model
readGlb(file, modelId, openssl) ==
    [content |-> file.content,
     originalPath |-> file.path,
     fileHash |-> calculateFileSHA256(file, openssl),
     uniqueId |-> modelId]

\* loadedGltf.model: what the reader parsed from the file, unless the caller of
\* the writer has built the model itself
ModelOf(loadedGltf) ==
    IF "model" \in DOMAIN loadedGltf THEN loadedGltf.model
    ELSE readGltf(loadedGltf.content)

(***************************************************************************)
(* Instancing detector (instancing_detector.cpp).                          *)
(***************************************************************************)
\* the detector's configuration that main leaves at its defaults
attributesToSkipDataHashInToleranceMode == {}
normalTolerance == 0
GeometryTolerances == {0, 10}

MeshInstanceInfo(loadedGltf, nodeIndex, meshIndex, transform) ==
    [originalGltfIndex |-> loadedGltf.uniqueId,
     originalNodeIndex |-> nodeIndex,
     originalMeshIndex |-> meshIndex,
     transform |-> transform]

NonInstancedMeshInfo(modelIndex, meshIndex, nodeIndex, transform) ==
    [originalGltfModelIndex |-> modelIndex,
     originalMeshIndexInModel |-> meshIndex,
     originalNodeIndexInModel |-> nodeIndex,
     transform |-> transform]

\* what std::map::operator[] inserts for a new key
EmptyGroup ==
    [representativeGltfModelIndex |-> -1,
     representativeMeshIndexInModel |-> -1,
     representativeMeshName |-> "",
     meshSignature |-> <<>>,
     instances |-> <<>>,
     representativePrimitiveBoundingBoxes |-> <<>>]

\* the first assignment to a group: its representative
Representative(group, loadedGltf, meshIndex, mesh, signature, boxes) ==
    [group EXCEPT !.representativeGltfModelIndex = loadedGltf.uniqueId,
                  !.representativeMeshIndexInModel = meshIndex,
                  !.meshSignature = signature,
                  !.representativeMeshName = mesh.name,
                  !.representativePrimitiveBoundingBoxes = @ \o boxes]

\* the signature of a mesh, from the cache or computed
MeshSignature(cache, loadedGltf, meshIndex) ==
    LET cacheKey == <<loadedGltf.uniqueId, meshIndex>>
    IN  IF cacheKey \in DOMAIN cache THEN cache[cacheKey]
        ELSE calculateMeshSignature(ModelOf(loadedGltf),
                 At(ModelOf(loadedGltf).meshes, meshIndex), geometryTolerance,
                 attributesToSkipDataHashInToleranceMode, normalTolerance)

\* AccessorView<T>(model, accessorIndex).status()
AccessorViewStatusAt(model, accessorIndex, sizeofT) ==
    IF ~ValidIndex(accessorIndex, model.accessors) THEN "InvalidAccessorIndex"
    ELSE AccessorViewStatus(model, At(model.accessors, accessorIndex), sizeofT)

\* the instance count of an EXT_mesh_gpu_instancing node
DetermineInstanceCount(model, extData) ==
    LET translationAccessorIdx == FindAttribute(extData.attributes, "TRANSLATION")
        rotationAccessorIdx == FindAttribute(extData.attributes, "ROTATION")
        scaleAccessorIdx == FindAttribute(extData.attributes, "SCALE")
    IN  IF ValidIndex(translationAccessorIdx, model.accessors)
        THEN At(model.accessors, translationAccessorIdx).count
        ELSE IF ValidIndex(rotationAccessorIdx, model.accessors)
        THEN At(model.accessors, rotationAccessorIdx).count
        ELSE IF ValidIndex(scaleAccessorIdx, model.accessors)
        THEN At(model.accessors, scaleAccessorIdx).count
        ELSE 0

\* element i of an instancing accessor, or the default when it cannot be read
InstanceElement(model, accessorIdx, sizeofT, i, default) ==
    IF /\ accessorIdx # -1
       /\ AccessorViewStatusAt(model, accessorIdx, sizeofT) = "Valid"
       /\ i < At(model.accessors, accessorIdx).count
    THEN At(At(model.accessors, accessorIdx).data, i)
    ELSE default

\* an instance placed at the node itself
InstanceAtNode(model, extData, i) == IdentityMat

\* instanceLocalTRSMatrix of instance i (0-based)
InstanceLocalTRSMatrix(model, extData, i) ==
    LET instTranslation ==
            InstanceElement(model, FindAttribute(extData.attributes, "TRANSLATION"),
                            12, i, <<0, 0, 0>>)
        q_xyzw ==
            InstanceElement(model, FindAttribute(extData.attributes, "ROTATION"),
                            16, i, <<0, 0, 0, 1>>)
        instRotation == normalize(Quat(q_xyzw[4], q_xyzw[1], q_xyzw[2], q_xyzw[3]))
        instScale ==
            InstanceElement(model, FindAttribute(extData.attributes, "SCALE"),
                            12, i, <<1, 1, 1>>)
    IN  MatMul(MatMul(translate(instTranslation), mat4_cast(instRotation)),
               scaleMat(instScale))

\* the MeshInstanceInfo records the extension loop pushes, in order
ExtensionInstances(loadedGltf, nodeIndex, node, worldTransform, extData, instanceCount) ==
    [k \in 1..instanceCount |->
        MeshInstanceInfo(loadedGltf, nodeIndex, node.mesh,
            fromMat4(MatMul(worldTransform,
                            InstanceLocalTRSMatrix(ModelOf(loadedGltf), extData, k - 1))))]

\* a node with EXT_mesh_gpu_instancing: the groups after the visit
ExtensionPath(groups, loadedGltf, nodeIndex, node, worldTransform, signature) ==
    LET model == ModelOf(loadedGltf)
        mesh == At(model.meshes, node.mesh)
        extData == node.instancing[1]
        instanceCount == DetermineInstanceCount(model, extData)
        group == IF signature \in DOMAIN groups THEN groups[signature] ELSE EmptyGroup
        founded == IF group.instances = <<>>
                   THEN Representative(group, loadedGltf, node.mesh, mesh, signature,
                            IF geometryTolerance > ExactEps
                            THEN PrimitiveBoundingBoxes(model, mesh) ELSE <<>>)
                   ELSE group
        joined == [founded EXCEPT !.instances = @ \o
                      ExtensionInstances(loadedGltf, nodeIndex, node, worldTransform,
                                         extData, instanceCount)]
    IN  IF instanceCount > 0
        THEN (signature :> joined) @@ groups
        ELSE groups

\* a visit that starts the group of the signature afresh
ExactPathAlone(groups, loadedGltf, node, instanceInfo, signature) ==
    (signature :>
        [Representative(EmptyGroup, loadedGltf, node.mesh,
                        At(ModelOf(loadedGltf).meshes, node.mesh), signature, <<>>)
         EXCEPT !.instances = <<instanceInfo>>]) @@ groups

\* a plain mesh node in exact mode: the groups after the visit
ExactPath(groups, loadedGltf, node, instanceInfo, signature) ==
    LET mesh == At(ModelOf(loadedGltf).meshes, node.mesh)
        group == IF signature \in DOMAIN groups THEN groups[signature] ELSE EmptyGroup
        founded == IF group.instances = <<>>
                   THEN Representative(group, loadedGltf, node.mesh, mesh, signature, <<>>)
                   ELSE group
    IN  (signature :> [founded EXCEPT !.instances = Append(@, instanceInfo)]) @@ groups

\* allPrimitivesSimilar of the tolerance path
AllPrimitivesSimilar(representativeBoxes, currentBoxes, tolerance) ==
    \A i \in DOMAIN currentBoxes :
        areBoundingBoxesSimilar(representativeBoxes[i], currentBoxes[i], tolerance)

\* a plain mesh node in tolerance mode: the groups and the non-instanced items
\* after the visit
TolerancePath(groups, nonInstancedItems, loadedGltf, nodeIndex, node, instanceInfo, signature) ==
    LET model == ModelOf(loadedGltf)
        mesh == At(model.meshes, node.mesh)
        groupFound == signature \in DOMAIN groups
        foundMatchingGroup ==
            /\ groupFound
            /\ Len(groups[signature].representativePrimitiveBoundingBoxes)
                 = Len(mesh.primitives)
            /\ AllPrimitivesSimilar(groups[signature].representativePrimitiveBoundingBoxes,
                                    PrimitiveBoundingBoxes(model, mesh), geometryTolerance)
    IN  IF foundMatchingGroup
        THEN [groups |-> [groups EXCEPT ![signature].instances = Append(@, instanceInfo)],
              nonInstancedItems |-> nonInstancedItems]
        ELSE IF ~groupFound
        THEN [groups |->
                (signature :>
                   [Representative(EmptyGroup, loadedGltf, node.mesh, mesh, signature,
                                   PrimitiveBoundingBoxes(model, mesh))
                    EXCEPT !.instances = <<instanceInfo>>]) @@ groups,
              nonInstancedItems |-> nonInstancedItems]
        ELSE [groups |-> groups,
              nonInstancedItems |->
                Append(nonInstancedItems,
                       NonInstancedMeshInfo(loadedGltf.uniqueId, node.mesh, nodeIndex,
                                            instanceInfo.transform))]

\* the recursive calls of traverseNode on the children, first child innermost
ChildFrames(modelIndex, node, worldTransform, depth) ==
    [k \in 1..Len(node.children) |->
        [model |-> modelIndex, nodeIndex |-> node.children[k],
         currentWorldTransform |-> worldTransform, depth |-> depth]]

RECURSIVE HashClasses(_, _, _)
\* the first loop of detect: modelIdToRepresentativeModelId, given the models
\* still to visit and the two maps built so far
HashClasses(models, fileHashToRepresentativeModelId, modelIdToRepresentative) ==
    IF models = <<>> THEN modelIdToRepresentative
    ELSE LET loadedGltf == Head(models)
         IN  IF loadedGltf.fileHash = <<>>
             THEN HashClasses(Tail(models), fileHashToRepresentativeModelId,
                              modelIdToRepresentative)
             ELSE IF loadedGltf.fileHash \notin DOMAIN fileHashToRepresentativeModelId
             THEN HashClasses(Tail(models),
                      (loadedGltf.fileHash :> loadedGltf.uniqueId)
                          @@ fileHashToRepresentativeModelId,
                      (loadedGltf.uniqueId :> loadedGltf.uniqueId)
                          @@ modelIdToRepresentative)
             ELSE HashClasses(Tail(models), fileHashToRepresentativeModelId,
                      (loadedGltf.uniqueId :>
                          fileHashToRepresentativeModelId[loadedGltf.fileHash])
                          @@ modelIdToRepresentative)

\* the root nodes of the first scene
FirstSceneRoots(model) == IF model.scenes = <<>> THEN <<>> ELSE model.scenes[1]

\* the root nodes detect hands to traverseNode for one model, in call order
SceneRoots(model) ==
    IF model.scenes = <<>> THEN <<>>
    ELSE LET sceneIndex == IF model.scene >= 0 THEN model.scene ELSE 0
         IN  IF sceneIndex >= Len(model.scenes) THEN <<>>
             ELSE At(model.scenes, sceneIndex)

\* modelIdToRepresentativeModelId.at(id) when present, else the id itself
RewriteModelId(id) ==
    IF id \in DOMAIN modelIdToRepresentativeModelId
    THEN modelIdToRepresentativeModelId[id] ELSE id

\* finalGroup of the last loop of detect
FinalGroup(group) ==
    [group EXCEPT
       !.representativeGltfModelIndex = RewriteModelId(@),
       !.instances = [k \in DOMAIN @ |->
                        [@[k] EXCEPT !.originalGltfIndex = RewriteModelId(@)]]]

\* a group below the limit is dropped
NotDemoted(group) == <<>>

\* the entries a group below the limit is moved to
Demoted(group) ==
    [k \in DOMAIN group.instances |->
        NonInstancedMeshInfo(RewriteModelId(group.instances[k].originalGltfIndex),
                             group.instances[k].originalMeshIndex,
                             group.instances[k].originalNodeIndex,
                             group.instances[k].transform)]

\* a test that lets every nonempty group through
AnyInstances(group) == Len(group.instances) >= 1

\* the test that forms an instanced group
ReachesLimit(group) == Len(group.instances) >= instanceLimit

(***************************************************************************)
(* Spec: main loads the files, then detect runs.                           *)
(***************************************************************************)
RECURSIVE SortedSeq(_)
SortedSeq(S) ==
    IF S = {} THEN <<>>
    ELSE LET m == CHOOSE x \in S : \A y \in S : x <= y
         IN  <<m>> \o SortedSeq(S \ {m})

\* the sets of files the run may find: some of Paths, any content in each
InputFiles ==
    { [k \in 1..Len(SortedSeq(S)) |->
          [path |-> Paths[SortedSeq(S)[k]], content |-> c[SortedSeq(S)[k]]]] :
      S \in {T \in SUBSET (1..Len(Paths)) : T # {} /\ Cardinality(T) <= MaxModels},
      c \in [1..Len(Paths) -> Contents] }

SigIdle ==
    /\ sigPc = "off" /\ sigTolerance = 0
    /\ prim1 = <<>> /\ prim2 = <<>> /\ sig1 = <<>> /\ sig2 = <<>>

\* the output stages are not part of the run
AsmIdle ==
    /\ client = "none" /\ meshSegmentation = FALSE /\ run = 1
    /\ asmPc = "off" /\ asmMode = "none" /\ worklist = <<>> /\ assembly = <<>>
    /\ outputDirectory = <<>> /\ stage1_outputGlbs = <<>> /\ failedWrites = <<>>
    /\ modelsToSegment = <<>> /\ segmentIdx = <<0, 0>> /\ segmentedFiles = <<>>
    /\ overallSuccess = TRUE /\ exitCode = -1 /\ firstRun = <<>>

Init ==
    /\ files \in InputFiles
    /\ USE_OPENSSL_SHA256 \in BOOLEAN
    /\ geometryTolerance \in GeometryTolerances
    /\ instanceLimit \in 1..MaxInstanceLimit
    /\ loadedModels = <<>>
    /\ pc = "load"
    /\ modelIdx = 0
    /\ stack = <<>>
    /\ potentialInstanceGroups = <<>>
    /\ finalized = {}
    /\ meshToSignatureCache = <<>>
    /\ modelIdToRepresentativeModelId = <<>>
    /\ instancedGroups = <<>>
    /\ nonInstancedMeshes = <<>>
    /\ SigIdle
    /\ AsmIdle

\* GlbReader::loadGltfModels: one iteration of its loop
loadGltfModels ==
    /\ pc = "load"
    /\ Len(loadedModels) < Len(files)
    /\ loadedModels' = Append(loadedModels,
           readGlb(files[Len(loadedModels) + 1], Len(loadedModels), USE_OPENSSL_SHA256))
    /\ UNCHANGED <<files, USE_OPENSSL_SHA256, geometryTolerance, instanceLimit, pc,
                   modelIdx, stack, potentialInstanceGroups, finalized,
                   meshToSignatureCache, modelIdToRepresentativeModelId,
                   instancedGroups, nonInstancedMeshes>>
    /\ UNCHANGED <<sigVars, asmVars>>

\* detect, up to the end of its first loop (the file-hash classes)
detectHashClasses ==
    /\ pc = "load"
    /\ Len(loadedModels) = Len(files)
    /\ modelIdToRepresentativeModelId' = HashClasses(loadedModels, <<>>, <<>>)
    /\ pc' = "detect"
    /\ UNCHANGED <<files, USE_OPENSSL_SHA256, geometryTolerance, instanceLimit,
                   loadedModels, modelIdx, stack, potentialInstanceGroups, finalized,
                   meshToSignatureCache, instancedGroups, nonInstancedMeshes>>
    /\ UNCHANGED <<sigVars, asmVars>>

\* detect: one iteration of the second loop, up to the calls of traverseNode
detectScene ==
    /\ pc = "detect"
    /\ stack = <<>>
    /\ modelIdx < Len(loadedModels)
    /\ LET roots == SceneRoots(ModelOf(At(loadedModels, modelIdx)))
       IN  stack' = [k \in 1..Len(roots) |->
                        [model |-> modelIdx, nodeIndex |-> roots[k],
                         currentWorldTransform |-> IdentityMat, depth |-> 1]]
    /\ modelIdx' = modelIdx + 1
    /\ UNCHANGED <<files, USE_OPENSSL_SHA256, geometryTolerance, instanceLimit,
                   loadedModels, pc, potentialInstanceGroups, finalized,
                   meshToSignatureCache, modelIdToRepresentativeModelId,
                   instancedGroups, nonInstancedMeshes>>
    /\ UNCHANGED <<sigVars, asmVars>>

\* InstancingDetector::traverseNode: the innermost pending call, up to its
\* recursive calls
traverseNode ==
    /\ pc = "detect"
    /\ stack # <<>>
    /\ Head(stack).depth <= MaxCallDepth
    /\ LET frame == Head(stack)
           loadedGltf == At(loadedModels, frame.model)
           model == ModelOf(loadedGltf)
           nodeIndex == frame.nodeIndex
       IN  IF ~ValidIndex(nodeIndex, model.nodes)
           THEN /\ stack' = Tail(stack)
                /\ UNCHANGED <<potentialInstanceGroups, nonInstancedMeshes,
                               meshToSignatureCache>>
           ELSE
             LET node == At(model.nodes, nodeIndex)
                 localTransform == getLocalTransformMatrix(node)
                 worldTransform == MatMul(frame.currentWorldTransform, localTransform)
                 hasMesh == node.mesh >= 0 /\ ValidIndex(node.mesh, model.meshes)
                 signature == MeshSignature(meshToSignatureCache, loadedGltf, node.mesh)
                 instanceInfo == MeshInstanceInfo(loadedGltf, nodeIndex, node.mesh,
                                                  fromMat4(worldTransform))
                 tolerant == TolerancePath(potentialInstanceGroups, nonInstancedMeshes,
                                 loadedGltf, nodeIndex, node, instanceInfo, signature)
             IN  /\ stack' = ChildFrames(frame.model, node, worldTransform,
                                          frame.depth + 1) \o Tail(stack)
                 /\ IF ~hasMesh
                    THEN UNCHANGED <<potentialInstanceGroups, nonInstancedMeshes,
                                     meshToSignatureCache>>
                    ELSE /\ meshToSignatureCache' =
                              (<<loadedGltf.uniqueId, node.mesh>> :> signature)
                                  @@ meshToSignatureCache
                         /\ IF node.instancing # <<>>
                            THEN /\ potentialInstanceGroups' =
                                      ExtensionPath(potentialInstanceGroups, loadedGltf,
                                          nodeIndex, node, worldTransform, signature)
                                 /\ UNCHANGED nonInstancedMeshes
                            ELSE IF geometryTolerance <= ExactEps
                            THEN /\ potentialInstanceGroups' =
                                      ExactPath(potentialInstanceGroups, loadedGltf, node,
                                                instanceInfo, signature)
                                 /\ UNCHANGED nonInstancedMeshes
                            ELSE /\ potentialInstanceGroups' = tolerant.groups
                                 /\ nonInstancedMeshes' = tolerant.nonInstancedItems
    /\ UNCHANGED <<files, USE_OPENSSL_SHA256, geometryTolerance, instanceLimit,
                   loadedModels, pc, modelIdx, finalized,
                   modelIdToRepresentativeModelId, instancedGroups>>
    /\ UNCHANGED <<sigVars, asmVars>>

\* traverseNode is called where the call stack has no room for its frame: the
\* process ends without a result
stackOverflow ==
    /\ pc = "detect"
    /\ stack # <<>>
    /\ Head(stack).depth > MaxCallDepth
    /\ pc' = "overflow"
    /\ UNCHANGED <<files, USE_OPENSSL_SHA256, geometryTolerance, instanceLimit,
                   loadedModels, modelIdx, stack, potentialInstanceGroups, finalized,
                   meshToSignatureCache, modelIdToRepresentativeModelId,
                   instancedGroups, nonInstancedMeshes>>
    /\ UNCHANGED <<sigVars, asmVars>>

\* detect: one iteration of the last loop.  std::map iterates in the order of the
\* hash values, which the collision-free hash does not fix: any unvisited key.
detectFinalize ==
    /\ pc = "detect"
    /\ stack = <<>>
    /\ modelIdx = Len(loadedModels)
    /\ \E signature \in DOMAIN potentialInstanceGroups \ finalized :
         LET group == potentialInstanceGroups[signature]
         IN  /\ finalized' = finalized \cup {signature}
             /\ IF ReachesLimit(group)
                THEN /\ instancedGroups' = Append(instancedGroups, FinalGroup(group))
                     /\ UNCHANGED nonInstancedMeshes
                ELSE IF group.instances # <<>>
                THEN /\ nonInstancedMeshes' = nonInstancedMeshes \o Demoted(group)
                     /\ UNCHANGED instancedGroups
                ELSE UNCHANGED <<instancedGroups, nonInstancedMeshes>>
    /\ UNCHANGED <<files, USE_OPENSSL_SHA256, geometryTolerance, instanceLimit,
                   loadedModels, pc, modelIdx, stack, potentialInstanceGroups,
                   meshToSignatureCache, modelIdToRepresentativeModelId>>
    /\ UNCHANGED <<sigVars, asmVars>>

\* detect returns its result
detectReturn ==
    /\ pc = "detect"
    /\ stack = <<>>
    /\ modelIdx = Len(loadedModels)
    /\ finalized = DOMAIN potentialInstanceGroups
    /\ pc' = "done"
    /\ UNCHANGED <<files, USE_OPENSSL_SHA256, geometryTolerance, instanceLimit,
                   loadedModels, modelIdx, stack, potentialInstanceGroups, finalized,
                   meshToSignatureCache, modelIdToRepresentativeModelId,
                   instancedGroups, nonInstancedMeshes>>
    /\ UNCHANGED <<sigVars, asmVars>>

Next ==
    \/ loadGltfModels
    \/ detectHashClasses
    \/ detectScene
    \/ traverseNode
    \/ detectFinalize
    \/ detectReturn

Spec == Init /\ [][Next]_vars

(***************************************************************************)
(* Notions the properties are stated in.                                   *)
(***************************************************************************)
Count(seq, x) == Cardinality({k \in DOMAIN seq : seq[k] = x})

LoadedIds == {loadedModels[k].uniqueId : k \in DOMAIN loadedModels}

\* the first-loaded model among those with the file hash of model id
FirstOfHashClass(id) ==
    CHOOSE r \in LoadedIds :
        /\ At(loadedModels, r).fileHash = At(loadedModels, id).fileHash
        /\ \A q \in LoadedIds :
              At(loadedModels, q).fileHash = At(loadedModels, id).fileHash => r <= q

\* the non-instanced entry that stands for a candidate
EntryOf(instance) ==
    [originalGltfModelIndex |-> FirstOfHashClass(instance.originalGltfIndex),
     originalMeshIndexInModel |-> instance.originalMeshIndex,
     originalNodeIndexInModel |-> instance.originalNodeIndex,
     transform |-> instance.transform]

TraversalDone == pc = "detect" /\ stack = <<>> /\ modelIdx = Len(loadedModels)

\* C1, first half: every emitted group has at least instance_limit instances
C1_GroupsReachLimit ==
    \A k \in DOMAIN instancedGroups :
        Len(instancedGroups[k].instances) >= instanceLimit

\* C1, second half: the step that finalizes a potential group below the limit
\* emits no group and adds exactly one non-instanced entry per candidate of it
C1_DemotedOnce ==
    \A signature \in finalized' \ finalized :
        LET group == potentialInstanceGroups[signature]
        IN  Len(group.instances) < instanceLimit =>
              /\ instancedGroups' = instancedGroups
              /\ Len(nonInstancedMeshes') = Len(nonInstancedMeshes) + Len(group.instances)
              /\ \A k \in DOMAIN group.instances :
                    LET e == EntryOf(group.instances[k])
                    IN  Count(nonInstancedMeshes', e) - Count(nonInstancedMeshes, e)
                          = Cardinality({j \in DOMAIN group.instances :
                                            EntryOf(group.instances[j]) = e})

\* C1: after detect every emitted group has at least instance_limit instances,
\* and every candidate of a potential group below the limit appears as exactly
\* one non-instanced entry.
C1_LimitAndDemotion == [](C1_GroupsReachLimit) /\ [][C1_DemotedOnce]_vars

\* a run that ends with an emitted group and with a demoted group
C1_Witness ==
    /\ pc = "done"
    /\ instancedGroups # <<>>
    /\ \E signature \in DOMAIN potentialInstanceGroups :
          LET group == potentialInstanceGroups[signature]
          IN  /\ Len(group.instances) \in 1..(instanceLimit - 1)
              /\ \A k \in DOMAIN group.instances :
                    Count(nonInstancedMeshes, EntryOf(group.instances[k])) = 1

(***************************************************************************)
(* The scene graph the properties refer to: the depth-first pre-order of   *)
(* the nodes under given roots, each with its world transform.             *)
(***************************************************************************)
RECURSIVE PreOrder(_, _)
PreOrder(model, pending) ==
    IF pending = <<>> THEN <<>>
    ELSE LET f == Head(pending)
         IN  IF ~ValidIndex(f.nodeIndex, model.nodes) THEN PreOrder(model, Tail(pending))
             ELSE LET node == At(model.nodes, f.nodeIndex)
                      world == MatMul(f.world, getLocalTransformMatrix(node))
                  IN  <<[nodeIndex |-> f.nodeIndex, world |-> world]>>
                        \o PreOrder(model,
                              [k \in 1..Len(node.children) |->
                                  [nodeIndex |-> node.children[k], world |-> world]]
                              \o Tail(pending))

RootsPending(roots) ==
    [k \in 1..Len(roots) |-> [nodeIndex |-> roots[k], world |-> IdentityMat]]

RECURSIVE Concat(_)
Concat(seqs) == IF seqs = <<>> THEN <<>> ELSE Head(seqs) \o Concat(Tail(seqs))

\* the visits of the default scene (scene 0 when the document names none)
DefaultSceneVisits(model) ==
    IF model.scenes = <<>> THEN <<>>
    ELSE LET d == IF model.scene >= 0 THEN model.scene ELSE 0
         IN  IF d >= Len(model.scenes) THEN <<>>
             ELSE PreOrder(model, RootsPending(At(model.scenes, d)))

\* the visits of every scene, in declared order
AllScenesVisits(model) ==
    Concat([k \in 1..Len(model.scenes) |-> PreOrder(model, RootsPending(model.scenes[k]))])

HasMesh(model, nodeIndex) ==
    LET node == At(model.nodes, nodeIndex)
    IN  node.mesh >= 0 /\ ValidIndex(node.mesh, model.meshes)

\* the signature of mesh meshIndex of loaded model id, computed afresh
SignatureOf(id, meshIndex) ==
    LET model == ModelOf(At(loadedModels, id))
    IN  calculateMeshSignature(model, At(model.meshes, meshIndex), geometryTolerance,
            attributesToSkipDataHashInToleranceMode, normalTolerance)

\* the candidates of node nodeIndex of model id in the group keyed by signature
CandidatesOf(id, nodeIndex, signature) ==
    IF signature \notin DOMAIN potentialInstanceGroups THEN <<>>
    ELSE SelectSeq(potentialInstanceGroups[signature].instances,
                   LAMBDA c : c.originalGltfIndex = id /\ c.originalNodeIndex = nodeIndex)

\* the traversal of the last model has returned and no group is finalized yet
TraversalJustOver == TraversalDone /\ finalized = {}
ExactMode == geometryTolerance <= ExactEps

\* C2: in exact mode (tolerance <= 1e-9) grouping is by signature alone: every
\* candidate lies in the group keyed by the signature of its mesh, every visited
\* plain mesh node is in that group, no two emitted groups share a signature,
\* and the traversal creates no non-instanced entry.
C2_ExactGrouping ==
    ExactMode =>
      /\ TraversalJustOver =>
            \A signature \in DOMAIN potentialInstanceGroups :
               \A k \in DOMAIN potentialInstanceGroups[signature].instances :
                  LET c == potentialInstanceGroups[signature].instances[k]
                  IN  SignatureOf(c.originalGltfIndex, c.originalMeshIndex) = signature
      /\ TraversalJustOver =>
            \A id \in LoadedIds :
               LET model == ModelOf(At(loadedModels, id))
                   visits == DefaultSceneVisits(model)
               IN  \A v \in DOMAIN visits :
                      LET n == visits[v].nodeIndex
                      IN  HasMesh(model, n) /\ At(model.nodes, n).instancing = <<>> =>
                            Len(CandidatesOf(id, n,
                                    SignatureOf(id, At(model.nodes, n).mesh))) = 1
      /\ \A i, j \in DOMAIN instancedGroups :
            instancedGroups[i].meshSignature = instancedGroups[j].meshSignature => i = j
      /\ (pc = "detect" /\ finalized = {}) => nonInstancedMeshes = <<>>

\* exact mode, finished: two emitted groups, one with candidates of two models
C2_Witness ==
    /\ ExactMode
    /\ pc = "done"
    /\ Len(instancedGroups) >= 2
    /\ \E k \in DOMAIN instancedGroups :
          LET inst == instancedGroups[k].instances
          IN  \E i, j \in DOMAIN inst :
                 /\ i < j
                 /\ inst[i].originalGltfIndex # inst[j].originalGltfIndex

\* component-wise within tolerance, for the boxes of two primitives
WithinTolerance(bb1, bb2, tolerance) ==
    \A a \in 1..3 : /\ Abs(bb1.min[a] - bb2.min[a]) <= tolerance
                    /\ Abs(bb1.max[a] - bb2.max[a]) <= tolerance

\* the per-primitive boxes of mesh meshIndex of loaded model id
BoxesOf(id, meshIndex) ==
    LET model == ModelOf(At(loadedModels, id))
    IN  PrimitiveBoundingBoxes(model, At(model.meshes, meshIndex))

\* the mesh of a candidate has the primitive count of the representative of the
\* group and boxes pairwise within geometry_tolerance of the representative's
MatchesRepresentative(group, c) ==
    LET rep == BoxesOf(group.representativeGltfModelIndex,
                       group.representativeMeshIndexInModel)
        cur == BoxesOf(c.originalGltfIndex, c.originalMeshIndex)
    IN  /\ Len(rep) = Len(cur)
        /\ \A i \in DOMAIN cur : WithinTolerance(rep[i], cur[i], geometryTolerance)

\* C3: in tolerance mode every instance of every group comes from a mesh with
\* the primitive count of the representative and per-primitive bounding boxes
\* within geometry_tolerance of the representative's, for plain nodes and for
\* nodes carrying EXT_mesh_gpu_instancing alike.
C3_Original ==
    ~ExactMode =>
      \A signature \in DOMAIN potentialInstanceGroups :
         \A k \in DOMAIN potentialInstanceGroups[signature].instances :
            MatchesRepresentative(potentialInstanceGroups[signature],
                                  potentialInstanceGroups[signature].instances[k])

\* the same for the candidates that plain mesh nodes contribute
C3_PlainNodesOnly ==
    ~ExactMode =>
      \A signature \in DOMAIN potentialInstanceGroups :
         \A k \in DOMAIN potentialInstanceGroups[signature].instances :
            LET c == potentialInstanceGroups[signature].instances[k]
                node == At(ModelOf(At(loadedModels, c.originalGltfIndex)).nodes,
                           c.originalNodeIndex)
            IN  node.instancing = <<>> =>
                   MatchesRepresentative(potentialInstanceGroups[signature], c)

\* a source file holding one mesh referenced by one plain node
OneMeshOneNode(content) ==
    LET model == readGltf(content)
    IN  /\ Len(model.meshes) = 1
        /\ Len(model.nodes) = 1
        /\ model.nodes[1].mesh = 0
        /\ model.nodes[1].instancing = <<>>
        /\ DefaultSceneVisits(model) # <<>>

IdenticalFiles ==
    /\ \A k \in DOMAIN files : files[k].content = files[1].content
    /\ OneMeshOneNode(files[1].content)

\* C4: N identical files of one mesh and one node each, N >= instance_limit,
\* give exactly one group of N instances and no non-instanced entry, in exact
\* and in tolerance mode.
C4_Original ==
    (pc = "done" /\ IdenticalFiles /\ Len(files) >= instanceLimit) =>
       /\ Len(instancedGroups) = 1
       /\ Len(instancedGroups[1].instances) = Len(files)
       /\ nonInstancedMeshes = <<>>

\* the same law for files whose mesh has a POSITION attribute
C4_WithPosition ==
    (files[1].content # "noPos") => C4_Original

OutputModelIds ==
    {instancedGroups[k].representativeGltfModelIndex : k \in DOMAIN instancedGroups}
    \cup UNION {{instancedGroups[k].instances[i].originalGltfIndex :
                    i \in DOMAIN instancedGroups[k].instances} :
                k \in DOMAIN instancedGroups}
    \cup {nonInstancedMeshes[k].originalGltfModelIndex : k \in DOMAIN nonInstancedMeshes}

\* C5: after detect every model ID in an output record is the ID of the
\* first-loaded model of its file-hash class.
C5_Original ==
    pc = "done" => \A id \in OutputModelIds : FirstOfHashClass(id) = id

\* the same for the records the last loop of detect writes
C5_FinalizedOnly ==
    pc = "done" =>
       \A id \in {instancedGroups[k].representativeGltfModelIndex :
                     k \in DOMAIN instancedGroups}
                 \cup UNION {{instancedGroups[k].instances[i].originalGltfIndex :
                                 i \in DOMAIN instancedGroups[k].instances} :
                             k \in DOMAIN instancedGroups} :
          FirstOfHashClass(id) = id

\* C6: two loaded models have equal fileHash exactly when their file bytes are
\* identical.
C6_Original ==
    \A i, j \in DOMAIN loadedModels :
       (loadedModels[i].fileHash = loadedModels[j].fileHash)
          <=> (loadedModels[i].content = loadedModels[j].content)

\* the same in a build with USE_OPENSSL_SHA256
C6_WithOpenSSL == USE_OPENSSL_SHA256 => C6_Original

(***************************************************************************)
(* SpecSig: the primitive signature as a function of two primitives.       *)
(***************************************************************************)
\* the document the two primitives belong to
SigModel == Document(0, <<>>, <<>>, <<>>)

\* the attribute containers: POSITION and COLOR_0 in either iteration order.
\* POSITION is one of the two cubes, the first cube interleaved with its
\* NORMAL, or an accessor of another type with as many elements
SigAttributes ==
    UNION {{ << <<"COLOR_0", c>>, <<"POSITION", q>> >>,
             << <<"POSITION", q>>, <<"COLOR_0", c>> >> } :
           c \in {4, 5}, q \in {0, 1, 4, 11}}

\* the morph targets: none, or one target in either iteration order
SigTargets ==
    { <<>>,
      << << <<"NORMAL", 9>>, <<"POSITION", 1>> >> >>,
      << << <<"POSITION", 1>>, <<"NORMAL", 9>> >> >> }

SigPrimitives ==
    {[material |-> 0, mode |-> 4, indices |-> i, attributes |-> a, targets |-> t] :
       i \in {-1, 3, 10}, a \in SigAttributes, t \in SigTargets}

DetIdle ==
    /\ files = <<>> /\ USE_OPENSSL_SHA256 = FALSE /\ geometryTolerance = 0
    /\ instanceLimit = 1 /\ loadedModels = <<>> /\ pc = "off" /\ modelIdx = 0
    /\ stack = <<>> /\ potentialInstanceGroups = <<>> /\ finalized = {}
    /\ meshToSignatureCache = <<>> /\ modelIdToRepresentativeModelId = <<>>
    /\ instancedGroups = <<>> /\ nonInstancedMeshes = <<>>

InitSig ==
    /\ DetIdle
    /\ AsmIdle
    /\ sigPc = "start"
    /\ sigTolerance \in GeometryTolerances
    /\ prim1 \in SigPrimitives
    /\ prim2 \in SigPrimitives
    /\ sig1 = <<>>
    /\ sig2 = <<>>

\* the per-primitive call in calculateMeshSignature, on both primitives
signPrimitives ==
    /\ sigPc = "start"
    /\ sig1' = calculatePrimitiveSignature(SigModel, prim1, sigTolerance,
                   attributesToSkipDataHashInToleranceMode, normalTolerance)
    /\ sig2' = calculatePrimitiveSignature(SigModel, prim2, sigTolerance,
                   attributesToSkipDataHashInToleranceMode, normalTolerance)
    /\ sigPc' = "signed"
    /\ UNCHANGED <<sigTolerance, prim1, prim2>>
    /\ UNCHANGED <<detVars, asmVars>>

NextSig == signPrimitives

SpecSig == InitSig /\ [][NextSig]_vars

\* the data of accessor accessorIndex, <<>> when there is none
DataOf(accessorIndex) ==
    IF ValidIndex(accessorIndex, SigModel.accessors)
    THEN At(SigModel.accessors, accessorIndex).data ELSE <<>>

AttributeNames(attributes) == {attributes[k][1] : k \in DOMAIN attributes}

\* element-wise equal data under every attribute name of two containers
SameAttributeData(a1, a2) ==
    /\ AttributeNames(a1) = AttributeNames(a2)
    /\ \A name \in AttributeNames(a1) :
          DataOf(FindAttribute(a1, name)) = DataOf(FindAttribute(a2, name))

\* the element-wise data-equality predicate on two primitives
SameData(p1, p2) ==
    /\ SameAttributeData(p1.attributes, p2.attributes)
    /\ DataOf(p1.indices) = DataOf(p2.indices)
    /\ Len(p1.targets) = Len(p2.targets)
    /\ \A t \in DOMAIN p1.targets : SameAttributeData(p1.targets[t], p2.targets[t])

\* C7: in exact mode, the byte hash being collision-free, two primitives with
\* the same signature have element-wise equal data for every attribute, the
\* indices and every morph target, whatever the accessors' types.
C7_Original ==
    (sigPc = "signed" /\ sigTolerance <= ExactEps /\ sig1 = sig2) =>
        SameData(prim1, prim2)

\* the same with COLOR_0 (VEC4 of FLOAT) left out of the comparison
C7_WithoutColor ==
    (sigPc = "signed" /\ sigTolerance <= ExactEps /\ sig1 = sig2) =>
        /\ DataOf(FindAttribute(prim1.attributes, "POSITION"))
             = DataOf(FindAttribute(prim2.attributes, "POSITION"))
        /\ DataOf(prim1.indices) = DataOf(prim2.indices)

\* the same attribute-name to accessor mapping, in the primitive and its targets
SameMapping(p1, p2) ==
    /\ p1.material = p2.material /\ p1.mode = p2.mode /\ p1.indices = p2.indices
    /\ Range(p1.attributes) = Range(p2.attributes)
    /\ Len(p1.targets) = Len(p2.targets)
    /\ \A t \in DOMAIN p1.targets : Range(p1.targets[t]) = Range(p2.targets[t])

\* C8: two primitives with the same attribute-name to accessor mapping get the
\* same signature (exact and tolerance mode) whatever the iteration order of
\* the attribute containers.
C8_Original ==
    (sigPc = "signed" /\ SameMapping(prim1, prim2)) => sig1 = sig2

(***************************************************************************)
(* Properties of the traversal (Spec).                                     *)
(***************************************************************************)
\* a visit list tagged with the id of the model
Tagged(id, visits) ==
    [v \in DOMAIN visits |->
        [id |-> id, nodeIndex |-> visits[v].nodeIndex, world |-> visits[v].world]]

\* the visits of the default scenes of the loaded models, in load order
AllVisits ==
    Concat([k \in DOMAIN loadedModels |->
               Tagged(loadedModels[k].uniqueId,
                      DefaultSceneVisits(ModelOf(loadedModels[k])))])

\* the visits of all scenes of the loaded models, in load order
AllVisitsOfAllScenes ==
    Concat([k \in DOMAIN loadedModels |->
               Tagged(loadedModels[k].uniqueId,
                      AllScenesVisits(ModelOf(loadedModels[k])))])

NodeOf(visit) == At(ModelOf(At(loadedModels, visit.id)).nodes, visit.nodeIndex)
MeshBearing(visit) == HasMesh(ModelOf(At(loadedModels, visit.id)), visit.nodeIndex)
IsExtension(visit) == NodeOf(visit).instancing # <<>>

\* N of an extension node: the count of the first of TRANSLATION, ROTATION,
\* SCALE that names an accessor
DescribedInstances(visit) ==
    LET model == ModelOf(At(loadedModels, visit.id))
        attributes == NodeOf(visit).instancing[1].attributes
        named == SelectSeq(<<"TRANSLATION", "ROTATION", "SCALE">>,
                    LAMBDA a : ValidIndex(FindAttribute(attributes, a), model.accessors))
    IN  IF named = <<>> THEN 0
        ELSE At(model.accessors, FindAttribute(attributes, named[1])).count

\* T_i . R_i . S_i of instance i (1-based) of an extension node
InstanceTRS(visit, i) ==
    LET model == ModelOf(At(loadedModels, visit.id))
        attributes == NodeOf(visit).instancing[1].attributes
        Elem(name, default) ==
            IF ValidIndex(FindAttribute(attributes, name), model.accessors)
            THEN At(model.accessors, FindAttribute(attributes, name)).data[i]
            ELSE default
        r == Elem("ROTATION", <<0, 0, 0, 1>>)
    IN  MatMul(translate(Elem("TRANSLATION", <<0, 0, 0>>)),
               MatMul(mat4_cast(normalize(Quat(r[4], r[1], r[2], r[3]))),
                      scaleMat(Elem("SCALE", <<1, 1, 1>>))))

\* the candidates a visited mesh node is to contribute
ExpectedCandidates(visit) ==
    IF ~MeshBearing(visit) THEN 0
    ELSE IF IsExtension(visit) THEN DescribedInstances(visit)
    ELSE 1

RECURSIVE ExpectedInGroup(_, _)
\* the candidates the visits are to contribute to the group of a signature
ExpectedInGroup(visits, signature) ==
    IF visits = <<>> THEN 0
    ELSE (IF MeshBearing(Head(visits))
             /\ SignatureOf(Head(visits).id, NodeOf(Head(visits)).mesh) = signature
          THEN ExpectedCandidates(Head(visits)) ELSE 0)
         + ExpectedInGroup(Tail(visits), signature)

\* C9: a visited node with a valid mesh and EXT_mesh_gpu_instancing describing
\* N > 0 instances contributes exactly N candidates to the group keyed by its
\* mesh signature, candidate i with the transform W_node . T_i . R_i . S_i; in
\* exact mode they share the group with the plain nodes of that signature.
C9_ExtensionCandidates ==
    TraversalJustOver =>
      /\ \A visit \in Range(AllVisits) :
            LET N == DescribedInstances(visit)
                cands == CandidatesOf(visit.id, visit.nodeIndex,
                                      SignatureOf(visit.id, NodeOf(visit).mesh))
            IN  (MeshBearing(visit) /\ IsExtension(visit) /\ N > 0) =>
                  /\ Len(cands) = N
                  /\ \A i \in 1..N :
                        cands[i].transform
                          = fromMat4(MatMul(visit.world, InstanceTRS(visit, i)))
      /\ ExactMode =>
            LET visits == AllVisits
            IN  \A signature \in DOMAIN potentialInstanceGroups :
                   Len(potentialInstanceGroups[signature].instances)
                     = ExpectedInGroup(visits, signature)

\* exact mode: a group holds the candidates of an extension node, each with its
\* own transform, and those of plain nodes
C9_Witness ==
    /\ ExactMode
    /\ TraversalJustOver
    /\ \E signature \in DOMAIN potentialInstanceGroups :
          LET inst == potentialInstanceGroups[signature].instances
              Ext(c) == At(ModelOf(At(loadedModels, c.originalGltfIndex)).nodes,
                           c.originalNodeIndex).instancing # <<>>
          IN  /\ Len(inst) >= 4
              /\ \E i, j \in DOMAIN inst :
                    /\ Ext(inst[i]) /\ Ext(inst[j])
                    /\ inst[i].transform # inst[j].transform
              /\ Cardinality({k \in DOMAIN inst : ~Ext(inst[k])}) >= 2

\* the records the traversal made for a node
YieldsCandidates(visit) ==
    \/ \E signature \in DOMAIN potentialInstanceGroups :
          CandidatesOf(visit.id, visit.nodeIndex, signature) # <<>>
    \/ \E k \in DOMAIN nonInstancedMeshes :
          /\ nonInstancedMeshes[k].originalGltfModelIndex = visit.id
          /\ nonInstancedMeshes[k].originalNodeIndexInModel = visit.nodeIndex

\* a mesh node that is to yield candidates: not an extension node of no instance
Yielding(visit) ==
    MeshBearing(visit) /\ (IsExtension(visit) => DescribedInstances(visit) > 0)

\* the position of the first visit of a node in a visit list, 0 when absent
Position(visits, id, nodeIndex) ==
    IF \E v \in DOMAIN visits : visits[v].id = id /\ visits[v].nodeIndex = nodeIndex
    THEN CHOOSE v \in DOMAIN visits :
            /\ visits[v].id = id /\ visits[v].nodeIndex = nodeIndex
            /\ \A u \in 1..(v - 1) :
                  ~(visits[u].id = id /\ visits[u].nodeIndex = nodeIndex)
    ELSE 0

\* the instances of every group follow the order of the visit list
InOrderOf(visits) ==
    \A signature \in DOMAIN potentialInstanceGroups :
       LET inst == potentialInstanceGroups[signature].instances
       IN  \A i, j \in DOMAIN inst :
              i < j =>
                /\ Position(visits, inst[i].originalGltfIndex, inst[i].originalNodeIndex) > 0
                /\ Position(visits, inst[i].originalGltfIndex, inst[i].originalNodeIndex)
                     <= Position(visits, inst[j].originalGltfIndex,
                                 inst[j].originalNodeIndex)

\* C10 as stated: every scene is traversed in declared order, so every mesh node
\* reachable from any scene yields candidates, and the instances of a group
\* appear in that order.
C10_Original ==
    TraversalJustOver =>
       /\ \A visit \in Range(AllVisitsOfAllScenes) :
             Yielding(visit) => YieldsCandidates(visit)
       /\ InOrderOf(AllVisitsOfAllScenes)

\* C10: for each loaded model the detector traverses the default scene only
\* (scene 0 when none is named), its root nodes in declared order, depth-first
\* with a node classified before its children: every mesh node reachable from
\* the default scene yields candidates (an extension node of no instance yields
\* none), no other node does, and the instances of a group appear in that order.
C10_DefaultSceneTraversal ==
    TraversalJustOver =>
       LET visits == AllVisits
       IN  /\ \A visit \in Range(visits) : Yielding(visit) => YieldsCandidates(visit)
           /\ \A visit \in Range(AllVisitsOfAllScenes) :
                 YieldsCandidates(visit) =>
                    Position(visits, visit.id, visit.nodeIndex) > 0
           /\ InOrderOf(visits)

\* a model of two scenes whose first scene was not traversed, and a group with
\* the candidates of a node and of its child, in that order
C10_Witness ==
    /\ TraversalJustOver
    /\ \E visit \in Range(AllVisitsOfAllScenes) :
          Yielding(visit) /\ ~YieldsCandidates(visit)
    /\ \E signature \in DOMAIN potentialInstanceGroups :
          LET inst == potentialInstanceGroups[signature].instances
          IN  \E i, j \in DOMAIN inst :
                 /\ i < j
                 /\ inst[i].originalGltfIndex = inst[j].originalGltfIndex
                 /\ inst[j].originalNodeIndex
                      \in Range(At(ModelOf(At(loadedModels, inst[i].originalGltfIndex)).nodes,
                                   inst[i].originalNodeIndex).children)


(***************************************************************************)
(* GLB assembler (glb_writer.cpp).  The state of a GlbWriter during one    *)
(* write is a record w:                                                    *)
(*   gltf            _outputGltf                                            *)
(*   buffer          _outputBufferData                                      *)
(*   remapping       the ResourceRemapping local to the write function      *)
(*   rootNodeIndices the local of the same name                             *)
(*   requests        a history of the copy requests made so far: kind, key, *)
(*                   returned index and whether the request appended        *)
(* Every operation returns [w |-> the state after it, ret |-> its result]. *)
(* Mesh weights, names of materials and bounding boxes are left out.       *)
(***************************************************************************)
ARRAY_BUFFER == 34962
ELEMENT_ARRAY_BUFFER == 34963
EPSILON == 0            \* the 1e-10 of createNonInstancedNode, in units of 1e-5
MantissaBits == 24      \* of an IEEE-754 binary32 float

Return(w, ret) == [w |-> w, ret |-> ret]

\* a result under a local name: every later statement sees the one value
With(result, Rest(_)) == Rest(result)

\* CesiumGltf::Model()
EmptyModel ==
    [extensionsUsed |-> <<>>, extensionsRequired |-> <<>>, accessors |-> <<>>,
     bufferViews |-> <<>>, buffers |-> <<>>, materials |-> <<>>, textures |-> <<>>,
     samplers |-> <<>>, images |-> <<>>, meshes |-> <<>>, nodes |-> <<>>,
     scenes |-> <<>>, scene |-> -1]

\* ResourceRemapping remapping;
ResourceRemapping ==
    [bufferViews |-> <<>>, accessors |-> <<>>, materials |-> <<>>,
     textures |-> <<>>, samplers |-> <<>>, images |-> <<>>]

\* GlbWriter::resetInternalState, and the locals every write function declares
\* right after calling it
resetInternalState ==
    [gltf |-> [EmptyModel EXCEPT !.buffers = << [byteLength |-> 0, data |-> <<>>,
                                                 uri |-> ""] >>],
     buffer |-> <<>>,
     remapping |-> ResourceRemapping,
     rootNodeIndices |-> <<>>,
     requests |-> <<>>]

\* the sizes a request can make grow
Sizes(w) ==
    <<Len(w.buffer), Len(w.gltf.bufferViews), Len(w.gltf.accessors),
      Len(w.gltf.materials), Len(w.gltf.textures), Len(w.gltf.samplers),
      Len(w.gltf.images), Len(w.gltf.meshes), Len(w.gltf.nodes)>>

\* the return of a copy request, entered into the history
Request(kind, key, before, result) ==
    [result EXCEPT !.w.requests =
        Append(@, [kind |-> kind, key |-> key, ret |-> result.ret,
                   appended |-> Sizes(result.w) # Sizes(before)])]

\* an append without alignment padding
addDataUnpadded(w, data, byteStrideOptional, isVertexBuffer) ==
    Return([w EXCEPT !.buffer = @ \o data,
                     !.gltf.bufferViews =
                        Append(@, [buffer |-> 0, byteOffset |-> Len(w.buffer),
                                   byteLength |-> Len(data), byteStride |-> 0,
                                   target |-> 0])],
           Len(w.gltf.bufferViews))

\* an append that puts the new bytes in front of the buffer
addDataInFront(w, data, byteStrideOptional, isVertexBuffer) ==
    Return([w EXCEPT !.buffer = Padded(data) \o @,
                     !.gltf.bufferViews =
                        Append(@, [buffer |-> 0, byteOffset |-> 0,
                                   byteLength |-> Len(data), byteStride |-> 0,
                                   target |-> 0])],
           Len(w.gltf.bufferViews))

\* GlbWriter::addDataToBuffer
addDataToBuffer(w, data, byteStrideOptional, isVertexBuffer) ==
    IF w.gltf.buffers = <<>> THEN Return(w, -1)
    ELSE LET padded == Padded(w.buffer)
             currentOffset == Len(padded)
             bv == [buffer |-> 0, byteOffset |-> currentOffset,
                    byteLength |-> Len(data),
                    byteStride |-> IF isVertexBuffer /\ byteStrideOptional > 0
                                   THEN byteStrideOptional ELSE 0,
                    target |-> 0]
         IN  Return([w EXCEPT !.buffer = padded \o data,
                              !.gltf.bufferViews = Append(@, bv)],
                    Len(w.gltf.bufferViews))

\* GlbWriter::copyBufferView
copyBufferView(w, oldModel, oldBufferViewIndex, oldModelId) ==
    LET key == <<oldModelId, oldBufferViewIndex>>
        oldBufferView == At(oldModel.bufferViews, oldBufferViewIndex)
        oldBuffer == At(oldModel.buffers, oldBufferView.buffer)
        bvByteLength == oldBufferView.byteLength
        oldDataSpan == SubSeq(oldBuffer.data, oldBufferView.byteOffset + 1,
                              oldBufferView.byteOffset + bvByteLength)
    IN  Request("bufferView", key, w,
          IF key \in DOMAIN w.remapping.bufferViews
          THEN Return(w, w.remapping.bufferViews[key])
          ELSE IF ~ValidIndex(oldBufferViewIndex, oldModel.bufferViews)
          THEN Return(w, -1)
          ELSE IF ~ValidIndex(oldBufferView.buffer, oldModel.buffers)
          THEN Return(w, -1)
          ELSE IF oldBuffer.data = <<>>
          THEN Return(w, -1)
          ELSE IF oldBufferView.byteOffset + bvByteLength > Len(oldBuffer.data)
          THEN Return(w, -1)
          ELSE With(addDataToBuffer(w, oldDataSpan, oldBufferView.byteStride, FALSE),
                 LAMBDA added :
                   IF added.ret < 0 THEN Return(added.w, -1)
                   ELSE Return([added.w EXCEPT
                                   !.gltf.bufferViews[added.ret + 1].target =
                                       IF oldBufferView.target # 0
                                       THEN oldBufferView.target ELSE @,
                                   !.remapping.bufferViews = (key :> added.ret) @@ @],
                               added.ret)))

\* GlbWriter::copyImage
copyImage(w, oldModel, oldImageIndex, oldModelId) ==
    LET key == <<oldModelId, oldImageIndex>>
        oldImage == At(oldModel.images, oldImageIndex)
    IN  Request("image", key, w,
          IF key \in DOMAIN w.remapping.images
          THEN Return(w, w.remapping.images[key])
          ELSE IF ~ValidIndex(oldImageIndex, oldModel.images)
          THEN Return(w, -1)
          ELSE With(IF oldImage.bufferView >= 0
                    THEN copyBufferView(w, oldModel, oldImage.bufferView, oldModelId)
                    ELSE Return(w, oldImage.bufferView),
                 LAMBDA view :
                   IF oldImage.bufferView >= 0 /\ view.ret < 0
                   THEN Return(view.w, -1)
                   ELSE Return([view.w EXCEPT
                                   !.gltf.images =
                                       Append(@, [oldImage EXCEPT
                                                    !.bufferView = view.ret]),
                                   !.remapping.images =
                                       (key :> Len(view.w.gltf.images)) @@ @],
                               Len(view.w.gltf.images))))

\* GlbWriter::copySampler
copySampler(w, oldModel, oldSamplerIndex, oldModelId) ==
    LET key == <<oldModelId, oldSamplerIndex>>
        newIndex == Len(w.gltf.samplers)
        body ==
          IF key \in DOMAIN w.remapping.samplers
          THEN Return(w, w.remapping.samplers[key])
          ELSE IF ~ValidIndex(oldSamplerIndex, oldModel.samplers)
          THEN Return(w, -1)
          ELSE Return([w EXCEPT !.gltf.samplers =
                                    Append(@, At(oldModel.samplers, oldSamplerIndex)),
                                !.remapping.samplers = (key :> newIndex) @@ @],
                      newIndex)
    IN  Request("sampler", key, w, body)

\* GlbWriter::copyTexture
copyTexture(w, oldModel, oldTextureIndex, oldModelId) ==
    LET key == <<oldModelId, oldTextureIndex>>
        oldTexture == At(oldModel.textures, oldTextureIndex)
    IN  Request("texture", key, w,
          IF key \in DOMAIN w.remapping.textures
          THEN Return(w, w.remapping.textures[key])
          ELSE IF ~ValidIndex(oldTextureIndex, oldModel.textures)
          THEN Return(w, -1)
          ELSE With(IF oldTexture.sampler >= 0
                    THEN copySampler(w, oldModel, oldTexture.sampler, oldModelId)
                    ELSE Return(w, oldTexture.sampler),
                 LAMBDA sampler :
                   With(IF oldTexture.source >= 0
                        THEN copyImage(sampler.w, oldModel, oldTexture.source,
                                       oldModelId)
                        ELSE Return(sampler.w, oldTexture.source),
                     LAMBDA source :
                       IF oldTexture.source >= 0 /\ source.ret < 0
                       THEN Return(source.w, -1)
                       ELSE Return([source.w EXCEPT
                                       !.gltf.textures =
                                           Append(@, [oldTexture EXCEPT
                                                        !.sampler = sampler.ret,
                                                        !.source = source.ret]),
                                       !.remapping.textures =
                                           (key :> Len(source.w.gltf.textures)) @@ @],
                                   Len(source.w.gltf.textures)))))

RECURSIVE DeclareExtensions(_, _)
\* the loop of copyMaterial over the extension keys of the material
DeclareExtensions(extensionsUsed, keys) ==
    IF keys = <<>> THEN extensionsUsed
    ELSE DeclareExtensions(
             IF Head(keys) \in Range(extensionsUsed) THEN extensionsUsed
             ELSE Append(extensionsUsed, Head(keys)),
             Tail(keys))

\* the outcome of a loop: ok is FALSE where the function returns -1 (or the
\* lambda false) from inside the loop; value is what the loop has built
Looped(w, ok, value) == [w |-> w, ok |-> ok, value |-> value]

RECURSIVE CopyTextureInfos(_, _, _, _, _)
\* the five texture-info lambdas of copyMaterial, in call order
CopyTextureInfos(w, oldModel, infos, oldModelId, copied) ==
    IF infos = <<>> THEN Looped(w, TRUE, copied)
    ELSE IF Head(infos) >= 0
    THEN With(copyTexture(w, oldModel, Head(infos), oldModelId),
           LAMBDA texture :
             IF texture.ret < 0 THEN Looped(texture.w, FALSE, copied)
             ELSE CopyTextureInfos(texture.w, oldModel, Tail(infos), oldModelId,
                                   Append(copied, texture.ret)))
    ELSE CopyTextureInfos(w, oldModel, Tail(infos), oldModelId, Append(copied, -1))

\* GlbWriter::copyMaterial
copyMaterial(w, oldModel, oldMaterialIndex, oldModelId) ==
    LET key == <<oldModelId, oldMaterialIndex>>
        oldMaterial == At(oldModel.materials, oldMaterialIndex)
    IN  Request("material", key, w,
          IF key \in DOMAIN w.remapping.materials
          THEN Return(w, w.remapping.materials[key])
          ELSE IF ~ValidIndex(oldMaterialIndex, oldModel.materials)
          THEN Return(w, -1)
          ELSE With(CopyTextureInfos(
                        [w EXCEPT !.gltf.extensionsUsed =
                            DeclareExtensions(@, oldMaterial.extensions)],
                        oldModel, oldMaterial.textureInfos, oldModelId, <<>>),
                 LAMBDA infos :
                   IF ~infos.ok THEN Return(infos.w, -1)
                   ELSE Return([infos.w EXCEPT
                                   !.gltf.materials =
                                       Append(@, [oldMaterial EXCEPT
                                                    !.textureInfos = infos.value]),
                                   !.remapping.materials =
                                       (key :> Len(infos.w.gltf.materials)) @@ @],
                               Len(infos.w.gltf.materials))))

\* the declared fields of an accessor (the reader's view of its elements is not
\* part of the glTF object)
Declared(accessor) == [f \in DOMAIN accessor \ {"data"} |-> accessor[f]]

\* a stride that takes the elements of every bufferView for tightly packed
computePackedStride(model, accessor) ==
    computeNumberOfComponents(accessor.type)
      * computeByteSizeOfComponent(accessor.componentType)

\* Accessor::computeByteStride
computeByteStride(model, accessor) ==
    LET bufferView == At(model.bufferViews, accessor.bufferView)
    IN  IF bufferView.byteStride > 0 THEN bufferView.byteStride
        ELSE computeNumberOfComponents(accessor.type)
               * computeByteSizeOfComponent(accessor.componentType)

\* copyAccessor behind its remap lookup: the copy of an accessor not seen yet
CopyNewAccessor(w, oldModel, oldAccessorIndex, oldModelId, skipBufferViewRemap) ==
    LET key == <<oldModelId, oldAccessorIndex>>
        oldAccessor == At(oldModel.accessors, oldAccessorIndex)
        bufferView == At(oldModel.bufferViews, oldAccessor.bufferView)
        bufferData == At(oldModel.buffers, bufferView.buffer).data
        elementByteLength == computeByteSizeOfComponent(oldAccessor.componentType)
                               * computeNumberOfComponents(oldAccessor.type)
        totalAccessorByteLength == oldAccessor.count * elementByteLength
        accessorStartOffsetInBuffer == bufferView.byteOffset + oldAccessor.byteOffset
        ElementStart(i) == accessorStartOffsetInBuffer
                             + i * computeByteStride(oldModel, oldAccessor)
    IN  IF ~ValidIndex(oldAccessorIndex, oldModel.accessors)
        THEN Return(w, -1)
        ELSE IF skipBufferViewRemap \/ oldAccessor.bufferView < 0
        THEN Return([w EXCEPT
                       !.gltf.accessors = Append(@, Declared(oldAccessor)),
                       !.remapping.accessors = (key :> Len(w.gltf.accessors)) @@ @],
                    Len(w.gltf.accessors))
        ELSE IF ~ValidIndex(oldAccessor.bufferView, oldModel.bufferViews)
        THEN Return(w, -1)
        ELSE IF \/ ~ValidIndex(bufferView.buffer, oldModel.buffers)
                \/ bufferData = <<>>
        THEN Return(w, -1)
        ELSE IF elementByteLength = 0 /\ oldAccessor.count > 0
        THEN Return(w, -1)
        ELSE IF \/ accessorStartOffsetInBuffer < 0
                \/ accessorStartOffsetInBuffer + totalAccessorByteLength
                     > Len(bufferData)
        THEN Return(w, -1)
        ELSE IF \E i \in 0..(oldAccessor.count - 1) :
                   ElementStart(i) + elementByteLength > Len(bufferData)
        THEN Return(w, -1)
        ELSE With(addDataToBuffer(w,
                      [k \in 1..totalAccessorByteLength |->
                          bufferData[ElementStart((k - 1) \div elementByteLength)
                                     + ((k - 1) % elementByteLength) + 1]],
                      elementByteLength, FALSE),
               LAMBDA added :
                 IF added.ret < 0 THEN Return(added.w, -1)
                 ELSE Return([added.w EXCEPT
                                 !.gltf.accessors =
                                     Append(@, [Declared(oldAccessor) EXCEPT
                                                  !.bufferView = added.ret,
                                                  !.byteOffset = 0]),
                                 !.remapping.accessors =
                                     (key :> Len(added.w.gltf.accessors)) @@ @],
                             Len(added.w.gltf.accessors)))

\* an accessor copy that does not consult the remap table
copyAccessorAgain(w, oldModel, oldAccessorIndex, oldModelId, skipBufferViewRemap) ==
    Request("accessor", <<oldModelId, oldAccessorIndex>>, w,
            CopyNewAccessor(w, oldModel, oldAccessorIndex, oldModelId,
                            skipBufferViewRemap))

\* GlbWriter::copyAccessor
copyAccessor(w, oldModel, oldAccessorIndex, oldModelId, skipBufferViewRemap) ==
    LET key == <<oldModelId, oldAccessorIndex>>
    IN  Request("accessor", key, w,
                IF key \in DOMAIN w.remapping.accessors
                THEN Return(w, w.remapping.accessors[key])
                ELSE CopyNewAccessor(w, oldModel, oldAccessorIndex, oldModelId,
                                     skipBufferViewRemap))

\* _outputGltf.bufferViews[accessor.bufferView].target = target, when the
\* accessor of that index has a bufferView of the output
SetTarget(w, accessorIndex, target) ==
    LET accessor == At(w.gltf.accessors, accessorIndex)
    IN  IF ValidIndex(accessor.bufferView, w.gltf.bufferViews)
        THEN [w EXCEPT !.gltf.bufferViews[accessor.bufferView + 1].target = target]
        ELSE w

RECURSIVE CopyAttributes(_, _, _, _, _, _)
\* the loop of copyMeshDefinition over the attributes of a primitive (setTargets)
\* or of a morph target
CopyAttributes(w, originalModel, attributes, originalModelId, setTargets, copied) ==
    IF attributes = <<>> THEN Looped(w, TRUE, copied)
    ELSE With(copyAccessor(w, originalModel, Head(attributes)[2], originalModelId,
                           FALSE),
           LAMBDA accessor :
             IF accessor.ret < 0 THEN Looped(accessor.w, FALSE, copied)
             ELSE CopyAttributes(
                      IF setTargets THEN SetTarget(accessor.w, accessor.ret, ARRAY_BUFFER)
                      ELSE accessor.w,
                      originalModel, Tail(attributes), originalModelId, setTargets,
                      Append(copied, <<Head(attributes)[1], accessor.ret>>)))

RECURSIVE CopyTargets(_, _, _, _, _)
CopyTargets(w, originalModel, targets, originalModelId, copied) ==
    IF targets = <<>> THEN Looped(w, TRUE, copied)
    ELSE With(CopyAttributes(w, originalModel, Head(targets), originalModelId,
                             FALSE, <<>>),
           LAMBDA target :
             IF ~target.ok THEN Looped(target.w, FALSE, copied)
             ELSE CopyTargets(target.w, originalModel, Tail(targets), originalModelId,
                              Append(copied, target.value)))

\* one iteration of the primitive loop of copyMeshDefinition
CopyPrimitive(w, originalModel, oldPrimitive, originalModelId) ==
    With(IF oldPrimitive.material >= 0
         THEN copyMaterial(w, originalModel, oldPrimitive.material, originalModelId)
         ELSE Return(w, -1),
      LAMBDA material :
        IF oldPrimitive.material >= 0 /\ material.ret < 0
        THEN Looped(material.w, FALSE, <<>>)
        ELSE
    With(IF oldPrimitive.indices >= 0
         THEN copyAccessor(material.w, originalModel, oldPrimitive.indices,
                           originalModelId, FALSE)
         ELSE Return(material.w, -1),
      LAMBDA indices :
        IF oldPrimitive.indices >= 0 /\ indices.ret < 0
        THEN Looped(indices.w, FALSE, <<>>)
        ELSE
    With(CopyAttributes(IF oldPrimitive.indices >= 0
                        THEN SetTarget(indices.w, indices.ret, ELEMENT_ARRAY_BUFFER)
                        ELSE indices.w,
                        originalModel, oldPrimitive.attributes, originalModelId,
                        TRUE, <<>>),
      LAMBDA attributes :
        IF ~attributes.ok THEN Looped(attributes.w, FALSE, <<>>)
        ELSE
    With(CopyTargets(attributes.w, originalModel, oldPrimitive.targets,
                     originalModelId, <<>>),
      LAMBDA targets :
        IF ~targets.ok THEN Looped(targets.w, FALSE, <<>>)
        ELSE Looped(targets.w, TRUE,
                    [material |-> material.ret, mode |-> oldPrimitive.mode,
                     indices |-> indices.ret, attributes |-> attributes.value,
                     targets |-> targets.value])))))

RECURSIVE CopyPrimitives(_, _, _, _, _)
CopyPrimitives(w, originalModel, primitives, originalModelId, copied) ==
    IF primitives = <<>> THEN Looped(w, TRUE, copied)
    ELSE With(CopyPrimitive(w, originalModel, Head(primitives), originalModelId),
           LAMBDA primitive :
             IF ~primitive.ok THEN Looped(primitive.w, FALSE, copied)
             ELSE CopyPrimitives(primitive.w, originalModel, Tail(primitives),
                                 originalModelId, Append(copied, primitive.value)))

\* GlbWriter::copyMeshDefinition
copyMeshDefinition(w, originalModel, originalMeshIndex, originalModelId) ==
    IF ~ValidIndex(originalMeshIndex, originalModel.meshes) THEN Return(w, -1)
    ELSE With(CopyPrimitives(w, originalModel,
                             At(originalModel.meshes, originalMeshIndex).primitives,
                             originalModelId, <<>>),
           LAMBDA primitives :
             IF ~primitives.ok THEN Return(primitives.w, -1)
             ELSE Return([primitives.w EXCEPT !.gltf.meshes =
                             Append(@, [name |-> At(originalModel.meshes,
                                                    originalMeshIndex).name,
                                        primitives |-> primitives.value])],
                         Len(primitives.w.gltf.meshes)))

\* static_cast<float> of a double: the 24 most significant bits of the value
RECURSIVE FloatStep(_)
FloatStep(x) == IF x < 2 ^ MantissaBits THEN 1 ELSE 2 * FloatStep(x \div 2)
static_cast_float(x) == Sign(x) * ((Abs(x) \div FloatStep(Abs(x))) * FloatStep(Abs(x)))

\* the bytes of a std::vector<float> holding the elements
FloatBytes(elements) ==
    ElementsBytes([i \in DOMAIN elements |->
                      [j \in DOMAIN elements[i] |-> static_cast_float(elements[i][j])]],
                  4)

\* CesiumGltf::Accessor of createInstanceTRS_Accessors
InstanceAccessor(bufferView, type, count) ==
    [type |-> type, componentType |-> FLOAT, count |-> count, normalized |-> FALSE,
     min |-> <<>>, max |-> <<>>, byteOffset |-> 0, bufferView |-> bufferView]

\* one of the three blocks of createInstanceTRS_Accessors: ret is the index
\* of the accessor, -1 when the data are empty
InstanceAttribute(w, elements, type, count) ==
    IF elements = <<>> THEN Return(w, -1)
    ELSE With(addDataToBuffer(w, FloatBytes(elements), 0, FALSE),
           LAMBDA added :
             Return([added.w EXCEPT !.gltf.accessors =
                        Append(@, InstanceAccessor(added.ret, type, count))],
                    Len(added.w.gltf.accessors)))

\* the three blocks of createInstanceTRS_Accessors, in the order of the function
InstanceAttributes(w, translationData, rotationData, scaleData, count) ==
    With(InstanceAttribute(w, translationData, "VEC3", count),
      LAMBDA translation :
    With(InstanceAttribute(translation.w, rotationData, "VEC4", count),
      LAMBDA rotation :
    With(InstanceAttribute(rotation.w, scaleData, "VEC3", count),
      LAMBDA scale :
        [w |-> scale.w, translationAccessorIndex |-> translation.ret,
         rotationAccessorIndex |-> rotation.ret,
         scaleAccessorIndex |-> scale.ret])))

\* per-instance accessors that describe one instance whatever the group holds
createOneInstanceTRS(w, instances) ==
    InstanceAttributes(w, << <<0, 0, 0>> >>, << <<0, 0, 0, 1>> >>, << <<1, 1, 1>> >>, 1)

\* GlbWriter::createInstanceTRS_Accessors
createInstanceTRS_Accessors(w, instances) ==
    InstanceAttributes(w,
        [i \in DOMAIN instances |-> instances[i].transform.translation],
        [i \in DOMAIN instances |->
            <<instances[i].transform.rotation.x, instances[i].transform.rotation.y,
              instances[i].transform.rotation.z, instances[i].transform.rotation.w>>],
        [i \in DOMAIN instances |-> instances[i].transform.scale],
        Len(instances))

\* the attributes of an ExtensionExtMeshGpuInstancing, absent ones left out
InstancingAttributes(transAccIdx, rotAccIdx, scaleAccIdx) ==
    (IF transAccIdx # -1 THEN << <<"TRANSLATION", transAccIdx>> >> ELSE <<>>)
      \o (IF rotAccIdx # -1 THEN << <<"ROTATION", rotAccIdx>> >> ELSE <<>>)
      \o (IF scaleAccIdx # -1 THEN << <<"SCALE", scaleAccIdx>> >> ELSE <<>>)

\* extensionsUsed after "push back the name unless it is there"
Declare(extensionsUsed, name) ==
    IF name \in Range(extensionsUsed) THEN extensionsUsed
    ELSE Append(extensionsUsed, name)

\* an instanced node that leaves extensionsUsed alone
createUndeclaredNode(w, meshIndexInOutputGltf, instances, representativeMeshName) ==
    With(createInstanceTRS_Accessors(w, instances),
      LAMBDA trs :
        Return([trs.w EXCEPT !.gltf.nodes =
                   Append(@, Node(meshIndexInOutputGltf, <<>>, <<>>, <<>>, <<>>, <<>>,
                                  << [attributes |->
                                        InstancingAttributes(
                                            trs.translationAccessorIndex,
                                            trs.rotationAccessorIndex,
                                            trs.scaleAccessorIndex)] >>))],
               Len(trs.w.gltf.nodes)))

\* GlbWriter::createInstancedNode
createInstancedNode(w, meshIndexInOutputGltf, instances, representativeMeshName) ==
    With(createInstanceTRS_Accessors(w, instances),
      LAMBDA trs :
        IF \/ trs.translationAccessorIndex # -1
           \/ trs.rotationAccessorIndex # -1
           \/ trs.scaleAccessorIndex # -1
        THEN Return([trs.w EXCEPT
                       !.gltf.extensionsUsed = Declare(@, "EXT_mesh_gpu_instancing"),
                       !.gltf.nodes =
                           Append(@, Node(meshIndexInOutputGltf, <<>>, <<>>, <<>>,
                                          <<>>, <<>>,
                                          << [attributes |->
                                                InstancingAttributes(
                                                    trs.translationAccessorIndex,
                                                    trs.rotationAccessorIndex,
                                                    trs.scaleAccessorIndex)] >>))],
                    Len(trs.w.gltf.nodes))
        ELSE Return([trs.w EXCEPT !.gltf.nodes =
                       Append(@, Node(meshIndexInOutputGltf, <<>>, <<>>, <<>>, <<>>,
                                      <<>>, <<>>))],
                    Len(trs.w.gltf.nodes)))

\* GlbWriter::createNonInstancedNode
createNonInstancedNode(w, meshIndexInOutputGltf, transform) ==
    LET t == transform.translation
        r == transform.rotation
        s == transform.scale
        newNode ==
            Node(meshIndexInOutputGltf, <<>>,
                 IF Abs(t[1]) > EPSILON \/ Abs(t[2]) > EPSILON \/ Abs(t[3]) > EPSILON
                 THEN t ELSE <<>>,
                 IF \/ Abs(r.x) > EPSILON \/ Abs(r.y) > EPSILON \/ Abs(r.z) > EPSILON
                    \/ Abs(r.w - 1) > EPSILON
                 THEN <<r.x, r.y, r.z, r.w>> ELSE <<>>,
                 IF \/ Abs(s[1] - 1) > EPSILON \/ Abs(s[2] - 1) > EPSILON
                    \/ Abs(s[3] - 1) > EPSILON
                 THEN s ELSE <<>>,
                 <<>>, <<>>)
    IN  Return([w EXCEPT !.gltf.nodes = Append(@, newNode)], Len(w.gltf.nodes))

\* GlbWriter::getOriginalModelById: <<the model>>, or <<>> for nullptr
getOriginalModelById(originalModels, modelId) ==
    LET found == {i \in DOMAIN originalModels : originalModels[i].uniqueId = modelId}
    IN  IF found = {} THEN <<>>
        ELSE << ModelOf(originalModels[CHOOSE i \in found : \A j \in found : i <= j]) >>

\* one iteration of the loop over detectionResult.instancedGroups
InstancedGroupStep(w, originalModels, group) ==
    LET representativeModel ==
            getOriginalModelById(originalModels, group.representativeGltfModelIndex)
    IN  IF group.instances = <<>> THEN w
        ELSE IF representativeModel = <<>> THEN w
        ELSE With(copyMeshDefinition(w, representativeModel[1],
                      group.representativeMeshIndexInModel,
                      group.representativeGltfModelIndex),
               LAMBDA mesh :
                 IF mesh.ret < 0 THEN mesh.w
                 ELSE With(createInstancedNode(mesh.w, mesh.ret, group.instances,
                                               group.representativeMeshName),
                        LAMBDA node :
                          [node.w EXCEPT !.rootNodeIndices = Append(@, node.ret)]))

\* the iteration without its test of newMeshIndex
NonInstancedStepUnchecked(w, originalModels, niMeshInfo) ==
    LET originalModel ==
            getOriginalModelById(originalModels, niMeshInfo.originalGltfModelIndex)
    IN  IF originalModel = <<>> THEN w
        ELSE With(copyMeshDefinition(w, originalModel[1],
                      niMeshInfo.originalMeshIndexInModel,
                      niMeshInfo.originalGltfModelIndex),
               LAMBDA mesh :
                 With(createNonInstancedNode(mesh.w, mesh.ret, niMeshInfo.transform),
                   LAMBDA node :
                     [node.w EXCEPT !.rootNodeIndices = Append(@, node.ret)]))

\* one iteration of the loop over detectionResult.nonInstancedMeshes
NonInstancedStep(w, originalModels, niMeshInfo) ==
    LET originalModel ==
            getOriginalModelById(originalModels, niMeshInfo.originalGltfModelIndex)
    IN  IF originalModel = <<>> THEN w
        ELSE With(copyMeshDefinition(w, originalModel[1],
                      niMeshInfo.originalMeshIndexInModel,
                      niMeshInfo.originalGltfModelIndex),
               LAMBDA mesh :
                 IF mesh.ret < 0 THEN mesh.w
                 ELSE With(createNonInstancedNode(mesh.w, mesh.ret,
                                                  niMeshInfo.transform),
                        LAMBDA node :
                          [node.w EXCEPT !.rootNodeIndices = Append(@, node.ret)]))

(***************************************************************************)
(* CesiumGltfContent::GltfUtilities::removeUnused*: the library removes    *)
(* the entries nothing refers to and renumbers the references to the rest. *)
(* Accessors are referred to by primitives (indices, attributes, morph     *)
(* targets) and by the attributes of EXT_mesh_gpu_instancing; bufferViews  *)
(* by accessors and images; buffers by bufferViews.                        *)
(***************************************************************************)
\* the position an index moves to when only the indices of kept (ascending)
\* stay; an index that is not kept is left as it is
Renumbered(kept, i) ==
    IF \E k \in DOMAIN kept : kept[k] = i
    THEN (CHOOSE k \in DOMAIN kept : kept[k] = i) - 1
    ELSE i

RenumberedPairs(kept, pairs) ==
    [k \in DOMAIN pairs |-> <<pairs[k][1], Renumbered(kept, pairs[k][2])>>]

UsedAccessors(gltf) ==
    LET primitives == UNION {Range(mesh.primitives) : mesh \in Range(gltf.meshes)}
        extensions == UNION {Range(node.instancing) : node \in Range(gltf.nodes)}
    IN  {i \in 0..(Len(gltf.accessors) - 1) :
           \/ \E p \in primitives :
                \/ p.indices = i
                \/ \E a \in Range(p.attributes) : a[2] = i
                \/ \E t \in Range(p.targets) : \E a \in Range(t) : a[2] = i
           \/ \E e \in extensions : \E a \in Range(e.attributes) : a[2] = i}

removeUnusedAccessors(gltf) ==
    LET kept == SortedSeq(UsedAccessors(gltf))
    IN  [gltf EXCEPT
           !.accessors = [k \in DOMAIN kept |-> At(gltf.accessors, kept[k])],
           !.meshes = [m \in DOMAIN @ |->
               [@[m] EXCEPT !.primitives = [p \in DOMAIN @ |->
                   [@[p] EXCEPT
                      !.indices = Renumbered(kept, @),
                      !.attributes = RenumberedPairs(kept, @),
                      !.targets = [t \in DOMAIN @ |-> RenumberedPairs(kept, @[t])]]]]],
           !.nodes = [n \in DOMAIN @ |->
               [@[n] EXCEPT !.instancing = [e \in DOMAIN @ |->
                   [@[e] EXCEPT !.attributes = RenumberedPairs(kept, @)]]]]]

removeUnusedBufferViews(gltf) ==
    LET used == {i \in 0..(Len(gltf.bufferViews) - 1) :
                   \/ \E a \in Range(gltf.accessors) : a.bufferView = i
                   \/ \E image \in Range(gltf.images) : image.bufferView = i}
        kept == SortedSeq(used)
    IN  [gltf EXCEPT
           !.bufferViews = [k \in DOMAIN kept |-> At(gltf.bufferViews, kept[k])],
           !.accessors = [a \in DOMAIN @ |->
               [@[a] EXCEPT !.bufferView = Renumbered(kept, @)]],
           !.images = [i \in DOMAIN @ |->
               [@[i] EXCEPT !.bufferView = Renumbered(kept, @)]]]

removeUnusedBuffers(gltf) ==
    LET used == {i \in 0..(Len(gltf.buffers) - 1) :
                   \E bufferView \in Range(gltf.bufferViews) : bufferView.buffer = i}
        kept == SortedSeq(used)
    IN  [gltf EXCEPT
           !.buffers = [k \in DOMAIN kept |-> At(gltf.buffers, kept[k])],
           !.bufferViews = [b \in DOMAIN @ |->
               [@[b] EXCEPT !.buffer = Renumbered(kept, @)]]]

\* the three write functions behind their loops, up to the call of writeGlb:
\* the scene, the byte length of the buffer, the pruning
FinishAssembly(w) ==
    [w EXCEPT
       !.gltf = removeUnusedBuffers(removeUnusedBufferViews(removeUnusedAccessors(
                  [@ EXCEPT
                     !.scenes = IF w.rootNodeIndices # <<>>
                                THEN Append(@, w.rootNodeIndices) ELSE @,
                     !.scene = IF w.rootNodeIndices # <<>>
                               THEN Len(w.gltf.scenes) ELSE @,
                     !.buffers = IF @ # <<>>
                                 THEN [@ EXCEPT ![1].byteLength = Len(w.buffer)]
                                 ELSE @])))]

(***************************************************************************)
(* A written GLB file, as a later GltfReader::readGltf parses it: the      *)
(* binary chunk becomes the data of buffer 0 and an accessor yields the    *)
(* elements its bufferView, offset and stride select.                      *)
(***************************************************************************)
ReadElements(gltf, buffer, accessor) ==
    IF ~ValidIndex(accessor.bufferView, gltf.bufferViews) THEN <<>>
    ELSE LET bufferView == At(gltf.bufferViews, accessor.bufferView)
             size == computeByteSizeOfComponent(accessor.componentType)
             components == computeNumberOfComponents(accessor.type)
             stride == IF bufferView.byteStride > 0 THEN bufferView.byteStride
                       ELSE size * components
             start == bufferView.byteOffset + accessor.byteOffset
         IN  [i \in 1..accessor.count |->
                [j \in 1..components |->
                   buffer[start + (i - 1) * stride + (j - 1) * size + 1][1]]]

\* the document parsed from the GLB that writeGlb(gltf, buffer) produces
WrittenDocument(gltf, buffer) ==
    [scene |-> gltf.scene, scenes |-> gltf.scenes, nodes |-> gltf.nodes,
     meshes |-> gltf.meshes,
     accessors |-> [a \in DOMAIN gltf.accessors |->
                      [data |-> ReadElements(gltf, buffer, gltf.accessors[a])]
                          @@ gltf.accessors[a]],
     bufferViews |-> gltf.bufferViews,
     buffers |-> [b \in DOMAIN gltf.buffers |->
                    [gltf.buffers[b] EXCEPT !.data = IF b = 1 THEN buffer ELSE <<>>]],
     materials |-> gltf.materials, textures |-> gltf.textures,
     samplers |-> gltf.samplers, images |-> gltf.images,
     extensionsUsed |-> gltf.extensionsUsed,
     extensionsRequired |-> gltf.extensionsRequired]

\* the size of that GLB: header, JSON chunk (by number of objects), binary chunk
WrittenSize(gltf, buffer) ==
    20 + 50 * (Len(gltf.accessors) + Len(gltf.bufferViews) + Len(gltf.meshes)
               + Len(gltf.nodes) + Len(gltf.materials)) + Len(buffer)

(***************************************************************************)
(* GlbWriter::writeMeshesAsSeparateGlbs: one iteration of its inner loop.  *)
(***************************************************************************)
\* std::any_cast<const nlohmann::json&>(payload): << the JSON object >>, or <<>>
\* when std::bad_any_cast is thrown because the std::any holds another type.
\* A payload the reader parsed holds the typed ExtensionExtMeshGpuInstancing
\* (GpuInstancing, NoInstancing); one holding a nlohmann::json has a field json.
any_cast_json(payload) ==
    IF "json" \in DOMAIN payload THEN << payload.json >> ELSE <<>>

RECURSIVE CopyInstancingAttributes(_, _, _, _, _)
\* the loop over the attributes of the JSON object: an accessor that cannot be
\* copied is logged and left out
CopyInstancingAttributes(w, originalGltf, attributes, sourceModelIdx, copied) ==
    IF attributes = <<>> THEN Looped(w, TRUE, copied)
    ELSE With(copyAccessor(w, originalGltf, Head(attributes)[2], sourceModelIdx,
                           FALSE),
           LAMBDA accessor :
             CopyInstancingAttributes(accessor.w, originalGltf, Tail(attributes),
                 sourceModelIdx,
                 IF accessor.ret >= 0
                 THEN Append(copied, <<Head(attributes)[1], accessor.ret>>)
                 ELSE copied))

\* the first node of a set of 1-based positions
FirstOf(positions) == CHOOSE n \in positions : \A o \in positions : n <= o

\* nodeForExportedGlb and the writer state once the node is complete
ExportedNode(w, originalGltf, meshIdx, sourceModelIdx, newMeshIndexInOutput) ==
    LET instancingNodes == {n \in DOMAIN originalGltf.nodes :
                              /\ originalGltf.nodes[n].mesh = meshIdx
                              /\ originalGltf.nodes[n].instancing # <<>>}
        meshNodes == {n \in DOMAIN originalGltf.nodes :
                        originalGltf.nodes[n].mesh = meshIdx}
        bare == Node(newMeshIndexInOutput, <<>>, <<>>, <<>>, <<>>, <<>>, <<>>)
        original == originalGltf.nodes[FirstOf(meshNodes)]
        originalInstancingJson ==
            any_cast_json(originalGltf.nodes[FirstOf(instancingNodes)].instancing[1])
    IN  IF instancingNodes = {}
        THEN [w |-> w,
              node |-> IF meshNodes = {} THEN bare
                       ELSE Node(newMeshIndexInOutput, <<>>, original.translation,
                                 original.rotation, original.scale, original.matrix,
                                 <<>>)]
        ELSE IF originalInstancingJson = <<>> THEN [w |-> w, node |-> bare]
        ELSE With(CopyInstancingAttributes(w, originalGltf,
                      originalInstancingJson[1].attributes, sourceModelIdx, <<>>),
               LAMBDA copied :
                 IF copied.value = <<>> THEN [w |-> copied.w, node |-> bare]
                 ELSE [w |-> [copied.w EXCEPT
                                !.gltf.extensionsUsed =
                                    Declare(@, "EXT_mesh_gpu_instancing"),
                                !.gltf.extensionsRequired =
                                    IF /\ "EXT_mesh_gpu_instancing"
                                             \notin Range(w.gltf.extensionsUsed)
                                       /\ "EXT_mesh_gpu_instancing"
                                             \in Range(originalGltf.extensionsRequired)
                                    THEN Declare(@, "EXT_mesh_gpu_instancing")
                                    ELSE @],
                       node |-> [bare EXCEPT
                                   !.instancing = << [attributes |-> copied.value] >>]])

\* the characters that are not alphanumeric, '_', '-' or '.' become '_'
Sanitized(name) ==
    CASE name = "big cube" -> "big_cube"
      [] name = "lamp #1" -> "lamp__1"
      [] OTHER -> name

\* path.stem()
stem(path) ==
    CASE filename(path) = "x.glb" -> "x"
      [] filename(path) = "y.glb" -> "y"
      [] filename(path) = "instanced_meshes.glb" -> "instanced_meshes"
      [] filename(path) = "non_instanced_meshes.glb" -> "non_instanced_meshes"

\* outputFileName of the mesh
SegmentFileName(loadedModel, meshIdx) ==
    LET name == At(ModelOf(loadedModel).meshes, meshIdx).name
        meshNamePart == IF name = "" THEN "mesh_" \o ToString(meshIdx)
                        ELSE Sanitized(name)
    IN  stem(loadedModel.originalPath) \o "_" \o meshNamePart \o ".glb"

\* the iteration up to the call of writeGlb: [copied, w]
SegmentMesh(loadedModel, sourceModelIdx, meshIdx) ==
    With(copyMeshDefinition(resetInternalState, ModelOf(loadedModel), meshIdx,
                            sourceModelIdx),
      LAMBDA mesh :
        IF mesh.ret < 0 THEN [copied |-> FALSE, w |-> mesh.w]
        ELSE With(ExportedNode(mesh.w, ModelOf(loadedModel), meshIdx, sourceModelIdx,
                               mesh.ret),
               LAMBDA exported :
                 [copied |-> TRUE,
                  w |-> [exported.w EXCEPT
                           !.gltf.nodes = Append(@, exported.node),
                           !.gltf.scenes = Append(@, << Len(exported.w.gltf.nodes) >>),
                           !.gltf.scene = Len(exported.w.gltf.scenes),
                           !.gltf.buffers[1].byteLength = Len(exported.w.buffer)]]))

(***************************************************************************)
(* SpecRun: main behind detect (main.cpp): stage 1 writes the instanced    *)
(* and the non-instanced GLB, stage 2 reloads what stage 1 wrote and       *)
(* segments it, then main returns.  A second process may then be started   *)
(* on the GLBs of the first.  The other clients of the assembler are a     *)
(* caller of the public writeInstancedGlb and a caller of the public       *)
(* writeMeshesAsSeparateGlbs.  The tileset stage and the CSV stage touch   *)
(* none of this state and are left out.                                    *)
(***************************************************************************)
MaxRuns == 2        \* at most this many processes, each on the outputs of the last

File(path, content) == [path |-> path, content |-> content]

\* the inputs of the first process
RunInputs ==
    { << File(Paths[1], "extFar"), File(Paths[3], "bigCubeUnlit") >>,
      << File(Paths[1], "cubeA"), File(Paths[3], "cubeA10") >>,
      << File(Paths[1], "twoCubes") >>,
      << File(Paths[1], "lamp") >>,
      << File(Paths[1], "cubeA"), File(Paths[3], "interleaved") >>,
      << File(Paths[1], "extUneven") >>,
      << File(Paths[1], "broken") >> }

\* config.outputDirectory of process r
OutputDirectoryName(r) == "out" \o ToString(r)
\* the path as one string, which also names the content of a written file
PathKey(path) == path[1] \o "/" \o path[2]

\* what a later read of the file yields; a file whose bytes were not all
\* written is [document |-> <<>>, size |-> 0, complete |-> FALSE]
WrittenFile(gltf, buffer) ==
    [document |-> WrittenDocument(gltf, buffer), size |-> WrittenSize(gltf, buffer),
     complete |-> TRUE]

\* the write functions each client calls, in order, and the file each writes
WriteCalls(c) ==
    CASE c = "main" -> << "writeInstancedMeshesOnly", "writeNonInstancedMeshesOnly" >>
      [] c = "writeInstancedGlb" -> << "writeInstancedGlb" >>
      [] c = "writeMeshesAsSeparateGlbs" -> <<>>

OutputName(mode) ==
    CASE mode = "writeInstancedMeshesOnly" -> "instanced_meshes.glb"
      [] mode = "writeNonInstancedMeshesOnly" -> "non_instanced_meshes.glb"
      [] mode = "writeInstancedGlb" -> "instanced.glb"

CallsMade(c, mode) ==
    IF mode = "none" THEN 0
    ELSE CHOOSE k \in DOMAIN WriteCalls(c) : WriteCalls(c)[k] = mode

\* the iterations of the loops of a write function
Worklist(mode) ==
    LET groups == [k \in DOMAIN instancedGroups |->
                      [kind |-> "group", item |-> instancedGroups[k]]]
        meshes == [k \in DOMAIN nonInstancedMeshes |->
                      [kind |-> "mesh", item |-> nonInstancedMeshes[k]]]
    IN  CASE mode = "writeInstancedMeshesOnly" -> groups
          [] mode = "writeNonInstancedMeshesOnly" -> meshes
          [] mode = "writeInstancedGlb" -> groups \o meshes

InitRun ==
    /\ files \in RunInputs
    /\ USE_OPENSSL_SHA256 \in BOOLEAN
    /\ geometryTolerance \in GeometryTolerances
    /\ instanceLimit \in 1..MaxInstanceLimit
    /\ loadedModels = <<>>
    /\ pc = "load"
    /\ modelIdx = 0
    /\ stack = <<>>
    /\ potentialInstanceGroups = <<>>
    /\ finalized = {}
    /\ meshToSignatureCache = <<>>
    /\ modelIdToRepresentativeModelId = <<>>
    /\ instancedGroups = <<>>
    /\ nonInstancedMeshes = <<>>
    /\ SigIdle
    /\ client \in {"main", "writeInstancedGlb", "writeMeshesAsSeparateGlbs"}
    /\ meshSegmentation \in BOOLEAN
    /\ client # "main" => ~meshSegmentation
    /\ run = 1
    /\ asmPc = "stage1"
    /\ asmMode = "none"
    /\ worklist = <<>>
    /\ assembly = <<>>
    /\ outputDirectory = <<>>
    /\ stage1_outputGlbs = <<>>
    /\ failedWrites = <<>>
    /\ modelsToSegment = <<>>
    /\ segmentIdx = <<0, 0>>
    /\ segmentedFiles = <<>>
    /\ overallSuccess = TRUE
    /\ exitCode = -1
    /\ firstRun = <<>>

\* a write function up to its loops: resetInternalState and the locals
beginWrite ==
    /\ pc = "done"
    /\ asmPc = "stage1"
    /\ CallsMade(client, asmMode) < Len(WriteCalls(client))
    /\ LET mode == WriteCalls(client)[CallsMade(client, asmMode) + 1]
       IN  /\ asmMode' = mode
           /\ worklist' = Worklist(mode)
    /\ assembly' = resetInternalState
    /\ asmPc' = "assemble"
    /\ UNCHANGED <<client, meshSegmentation, run, outputDirectory, stage1_outputGlbs,
                   failedWrites, modelsToSegment, segmentIdx, segmentedFiles,
                   overallSuccess, exitCode, firstRun>>
    /\ UNCHANGED <<detVars, sigVars>>

\* one iteration of the loop over the instanced groups
assembleGroup ==
    /\ asmPc = "assemble"
    /\ worklist # <<>>
    /\ Head(worklist).kind = "group"
    /\ assembly' = InstancedGroupStep(assembly, loadedModels, Head(worklist).item)
    /\ worklist' = Tail(worklist)
    /\ UNCHANGED <<client, meshSegmentation, run, asmPc, asmMode, outputDirectory,
                   stage1_outputGlbs, failedWrites, modelsToSegment, segmentIdx,
                   segmentedFiles, overallSuccess, exitCode, firstRun>>
    /\ UNCHANGED <<detVars, sigVars>>

\* one iteration of the loop over the non-instanced meshes
assembleNonInstanced ==
    /\ asmPc = "assemble"
    /\ worklist # <<>>
    /\ Head(worklist).kind = "mesh"
    /\ assembly' = NonInstancedStep(assembly, loadedModels, Head(worklist).item)
    /\ worklist' = Tail(worklist)
    /\ UNCHANGED <<client, meshSegmentation, run, asmPc, asmMode, outputDirectory,
                   stage1_outputGlbs, failedWrites, modelsToSegment, segmentIdx,
                   segmentedFiles, overallSuccess, exitCode, firstRun>>
    /\ UNCHANGED <<detVars, sigVars>>

\* a write function behind its loops, and what main does with its result.  The
\* serializer yields the bytes or none, the file can be opened or not, and the
\* stream takes all the bytes or fails; only writeInstancedGlb tests the stream
\* behind write and close
finishWrite ==
    /\ asmPc = "assemble"
    /\ worklist = <<>>
    /\ assembly' = FinishAssembly(assembly)
    /\ \E outcome \in {"no bytes", "not opened", "write failed", "written"} :
         LET path == <<OutputDirectoryName(run), OutputName(asmMode)>>
             returned == \/ outcome = "written"
                         \/ outcome = "write failed" /\ asmMode # "writeInstancedGlb"
         IN  /\ outputDirectory' =
                   IF outcome = "written"
                   THEN (PathKey(path) :> WrittenFile(assembly'.gltf, assembly'.buffer))
                            @@ outputDirectory
                   ELSE IF outcome = "write failed"
                   THEN (PathKey(path) :>
                            [document |-> <<>>, size |-> 0, complete |-> FALSE])
                            @@ outputDirectory
                   ELSE outputDirectory
             /\ stage1_outputGlbs' = IF returned /\ client = "main"
                                     THEN Append(stage1_outputGlbs, path)
                                     ELSE stage1_outputGlbs
             /\ failedWrites' = IF returned THEN failedWrites
                                ELSE Append(failedWrites, path)
    /\ asmPc' = IF CallsMade(client, asmMode) < Len(WriteCalls(client)) THEN "stage1"
                ELSE IF client = "main" THEN "stage2"
                ELSE "returned"
    /\ UNCHANGED <<client, meshSegmentation, run, asmMode, worklist, modelsToSegment,
                   segmentIdx, segmentedFiles, overallSuccess, exitCode, firstRun>>
    /\ UNCHANGED <<detVars, sigVars>>

\* the GLBs of stage 1 that a reader can parse
Reloadable ==
    SelectSeq(stage1_outputGlbs, LAMBDA path : outputDirectory[PathKey(path)].complete)

\* the directory segmentation writes into
SegmentationOutputDir == OutputDirectoryName(run) \o "/segmented_glb_output"

\* main, stage 2, up to the call of writeMeshesAsSeparateGlbs: the directory can
\* be created or not; every GLB of stage 1 is reloaded by a call of its own,
\* and one that cannot be parsed is left out
beginSegmentation ==
    /\ asmPc = "stage2"
    /\ meshSegmentation
    /\ stage1_outputGlbs # <<>>
    /\ \E created \in BOOLEAN :
         IF created
         THEN /\ modelsToSegment' =
                    [k \in DOMAIN Reloadable |->
                        readGlb(File(Reloadable[k], PathKey(Reloadable[k])),
                                0, USE_OPENSSL_SHA256)]
              /\ asmPc' = "segment"
              /\ UNCHANGED exitCode
         ELSE /\ exitCode' = 1
              /\ asmPc' = "exit"
              /\ UNCHANGED modelsToSegment
    /\ segmentIdx' = <<0, 0>>
    /\ segmentedFiles' = <<>>
    /\ overallSuccess' = TRUE
    /\ UNCHANGED <<client, meshSegmentation, run, asmMode, worklist, assembly,
                   outputDirectory, stage1_outputGlbs, failedWrites, firstRun>>
    /\ UNCHANGED <<detVars, sigVars>>

\* the iteration behind the state it has built: a mesh that was not copied is
\* skipped, the others are written when their file can be opened
writeSegment(segmented, outputPath) ==
    /\ assembly' = segmented.w
    /\ IF ~segmented.copied
       THEN /\ overallSuccess' = FALSE
            /\ UNCHANGED <<outputDirectory, segmentedFiles>>
       ELSE \E opened \in BOOLEAN :
              IF opened
              THEN /\ outputDirectory' =
                         (PathKey(outputPath) :>
                             WrittenFile(segmented.w.gltf, segmented.w.buffer))
                           @@ outputDirectory
                   /\ segmentedFiles' = Append(segmentedFiles, PathKey(outputPath))
                   /\ UNCHANGED overallSuccess
              ELSE /\ overallSuccess' = FALSE
                   /\ UNCHANGED <<outputDirectory, segmentedFiles>>

\* writeMeshesAsSeparateGlbs: one iteration of the inner loop
segmentMesh ==
    /\ asmPc = "segment"
    /\ segmentIdx[1] < Len(modelsToSegment)
    /\ segmentIdx[2] < Len(ModelOf(At(modelsToSegment, segmentIdx[1])).meshes)
    /\ writeSegment(SegmentMesh(At(modelsToSegment, segmentIdx[1]), segmentIdx[1],
                                segmentIdx[2]),
                    <<SegmentationOutputDir,
                      SegmentFileName(At(modelsToSegment, segmentIdx[1]),
                                      segmentIdx[2])>>)
    /\ segmentIdx' = <<segmentIdx[1], segmentIdx[2] + 1>>
    /\ UNCHANGED <<client, meshSegmentation, run, asmPc, asmMode, worklist,
                   stage1_outputGlbs, failedWrites, modelsToSegment, exitCode,
                   firstRun>>
    /\ UNCHANGED <<detVars, sigVars>>

\* a model as a caller of the writer builds it who keeps the extension of a node
\* as the nlohmann::json object of the file
AsRawJson(loadedGltf) ==
    [content |-> loadedGltf.content,
     originalPath |-> loadedGltf.originalPath,
     fileHash |-> loadedGltf.fileHash,
     uniqueId |-> loadedGltf.uniqueId,
     model |-> [ModelOf(loadedGltf) EXCEPT !.nodes =
                   [n \in DOMAIN @ |->
                       [@[n] EXCEPT !.instancing =
                           [e \in DOMAIN @ |-> [json |-> @[e]]]]]]]

\* a caller of the public writeMeshesAsSeparateGlbs hands it such models
callSegmentation ==
    /\ pc = "done"
    /\ asmPc = "stage1"
    /\ client = "writeMeshesAsSeparateGlbs"
    /\ modelsToSegment' = [k \in DOMAIN loadedModels |-> AsRawJson(loadedModels[k])]
    /\ segmentIdx' = <<0, 0>>
    /\ segmentedFiles' = <<>>
    /\ overallSuccess' = TRUE
    /\ asmPc' = "segment"
    /\ UNCHANGED <<client, meshSegmentation, run, asmMode, worklist, assembly,
                   outputDirectory, stage1_outputGlbs, failedWrites, exitCode,
                   firstRun>>
    /\ UNCHANGED <<detVars, sigVars>>

\* writeMeshesAsSeparateGlbs returns overallSuccess to that caller
segmentationReturn ==
    /\ asmPc = "segment"
    /\ segmentIdx[1] >= Len(modelsToSegment)
    /\ client = "writeMeshesAsSeparateGlbs"
    /\ asmPc' = "returned"
    /\ UNCHANGED <<client, meshSegmentation, run, asmMode, worklist, assembly,
                   outputDirectory, stage1_outputGlbs, failedWrites, modelsToSegment,
                   segmentIdx, segmentedFiles, overallSuccess, exitCode, firstRun>>
    /\ UNCHANGED <<detVars, sigVars>>

\* writeMeshesAsSeparateGlbs: the outer loop moves to the next model
segmentNextModel ==
    /\ asmPc = "segment"
    /\ segmentIdx[1] < Len(modelsToSegment)
    /\ segmentIdx[2] >= Len(ModelOf(At(modelsToSegment, segmentIdx[1])).meshes)
    /\ segmentIdx' = <<segmentIdx[1] + 1, 0>>
    /\ UNCHANGED <<client, meshSegmentation, run, asmPc, asmMode, worklist, assembly,
                   outputDirectory, stage1_outputGlbs, failedWrites, modelsToSegment,
                   segmentedFiles, overallSuccess, exitCode, firstRun>>
    /\ UNCHANGED <<detVars, sigVars>>

\* main behind stage 2: "GltfInstancingTool finished successfully." and return 0
mainReturn ==
    /\ \/ asmPc = "stage2" /\ ~(meshSegmentation /\ stage1_outputGlbs # <<>>)
       \/ asmPc = "segment" /\ segmentIdx[1] >= Len(modelsToSegment)
    /\ client = "main"
    /\ exitCode' = 0
    /\ asmPc' = "exit"
    /\ UNCHANGED <<client, meshSegmentation, run, asmMode, worklist, assembly,
                   outputDirectory, stage1_outputGlbs, failedWrites, modelsToSegment,
                   segmentIdx, segmentedFiles, overallSuccess, firstRun>>
    /\ UNCHANGED <<detVars, sigVars>>

\* a further process, with the same configuration, on the GLBs stage 1 wrote
\* (std::set<path> holds them in the order stage 1 wrote them); loadGltfModels
\* skips a file that cannot be parsed
rerun ==
    /\ asmPc = "exit"
    /\ exitCode = 0
    /\ ~meshSegmentation
    /\ run < MaxRuns
    /\ Reloadable # <<>>
    /\ files' = [k \in DOMAIN Reloadable |->
                    File(Reloadable[k], PathKey(Reloadable[k]))]
    /\ firstRun' = IF run = 1
                   THEN << [files |-> files,
                            instancedGroups |-> instancedGroups,
                            nonInstancedMeshes |-> nonInstancedMeshes,
                            written |-> [k \in DOMAIN Reloadable |->
                                outputDirectory[PathKey(Reloadable[k])].document]] >>
                   ELSE firstRun
    /\ run' = run + 1
    /\ loadedModels' = <<>>
    /\ pc' = "load"
    /\ modelIdx' = 0
    /\ stack' = <<>>
    /\ potentialInstanceGroups' = <<>>
    /\ finalized' = {}
    /\ meshToSignatureCache' = <<>>
    /\ modelIdToRepresentativeModelId' = <<>>
    /\ instancedGroups' = <<>>
    /\ nonInstancedMeshes' = <<>>
    /\ asmPc' = "stage1"
    /\ asmMode' = "none"
    /\ assembly' = <<>>
    /\ stage1_outputGlbs' = <<>>
    /\ failedWrites' = <<>>
    /\ exitCode' = -1
    /\ UNCHANGED <<USE_OPENSSL_SHA256, geometryTolerance, instanceLimit, client,
                   meshSegmentation, worklist, outputDirectory, modelsToSegment,
                   segmentIdx, segmentedFiles, overallSuccess>>
    /\ UNCHANGED sigVars

NextRun ==
    \/ loadGltfModels
    \/ detectHashClasses
    \/ detectScene
    \/ traverseNode
    \/ detectFinalize
    \/ detectReturn
    \/ beginWrite
    \/ assembleGroup
    \/ assembleNonInstanced
    \/ finishWrite
    \/ beginSegmentation
    \/ callSegmentation
    \/ segmentMesh
    \/ segmentNextModel
    \/ segmentationReturn
    \/ mainReturn
    \/ rerun

SpecRun == InitRun /\ [][NextRun]_vars

(***************************************************************************)
(* Claims about the assembler, checked under SpecRun.                      *)
(***************************************************************************)
\* the accessor an attribute of the extension names, << >> when it names none
AttributeAccessor(gltf, attributes, name) ==
    LET named == {k \in DOMAIN attributes : attributes[k][1] = name}
    IN  IF named = {} THEN <<>>
        ELSE IF ~ValidIndex(attributes[FirstOf(named)][2], gltf.accessors) THEN <<>>
        ELSE << At(gltf.accessors, attributes[FirstOf(named)][2]) >>

\* the accessor exists, has the type, FLOAT components, one element per
\* instance, and holds the elements
HoldsInstances(w, accessor, type, elements) ==
    /\ accessor # <<>>
    /\ accessor[1].type = type
    /\ accessor[1].componentType = FLOAT
    /\ accessor[1].count = Len(elements)
    /\ accessor[1].byteOffset = 0
    /\ ReadElements(w.gltf, w.buffer, accessor[1]) =
           [i \in DOMAIN elements |->
               [j \in DOMAIN elements[i] |-> static_cast_float(elements[i][j])]]

\* the node carries the extension with the three attributes of the instances
CarriesInstances(w, node, instances) ==
    /\ node.instancing # <<>>
    /\ HoldsInstances(w, AttributeAccessor(w.gltf, node.instancing[1].attributes,
                                           "TRANSLATION"),
                      "VEC3",
                      [i \in DOMAIN instances |-> instances[i].transform.translation])
    /\ HoldsInstances(w, AttributeAccessor(w.gltf, node.instancing[1].attributes,
                                           "ROTATION"),
                      "VEC4",
                      [i \in DOMAIN instances |->
                          <<instances[i].transform.rotation.x,
                            instances[i].transform.rotation.y,
                            instances[i].transform.rotation.z,
                            instances[i].transform.rotation.w>>])
    /\ HoldsInstances(w, AttributeAccessor(w.gltf, node.instancing[1].attributes,
                                           "SCALE"),
                      "VEC3",
                      [i \in DOMAIN instances |-> instances[i].transform.scale])

\* an iteration of the group loop that has appended a node
GroupNodeCreated ==
    /\ asmPc = "assemble"
    /\ worklist # <<>>
    /\ worklist' = Tail(worklist)
    /\ Head(worklist).kind = "group"
    /\ Len(assembly'.gltf.nodes) = Len(assembly.gltf.nodes) + 1

\* C11: the node an iteration of the group loop creates carries
\* EXT_mesh_gpu_instancing whose TRANSLATION, ROTATION and SCALE attributes name
\* existing accessors of the output, VEC3, VEC4 (x, y, z, w) and VEC3 of FLOAT,
\* each with as many elements as the group has instances
C11_InstancedNodeAccessors ==
    [][GroupNodeCreated =>
         CarriesInstances(assembly', assembly'.gltf.nodes[Len(assembly'.gltf.nodes)],
                          Head(worklist).item.instances)]_vars

\* an instanced node of a group of two instances has been created
C11_Witness ==
    /\ asmPc = "assemble"
    /\ \E n \in DOMAIN assembly.gltf.nodes :
         /\ assembly.gltf.nodes[n].instancing # <<>>
         /\ AttributeAccessor(assembly.gltf,
                              assembly.gltf.nodes[n].instancing[1].attributes,
                              "ROTATION") # <<>>
         /\ AttributeAccessor(assembly.gltf,
                              assembly.gltf.nodes[n].instancing[1].attributes,
                              "ROTATION")[1].count = 2

\* the documents of the GLB files written so far
OutputDocuments ==
    {outputDirectory[key].document :
        key \in {k \in DOMAIN outputDirectory : outputDirectory[k].complete}}

CarriesInstancing(document) ==
    \E n \in DOMAIN document.nodes : document.nodes[n].instancing # <<>>

\* C12: every GLB written, by any of the write functions, lists
\* EXT_mesh_gpu_instancing in extensionsUsed exactly when one of its nodes
\* carries the extension, and never lists it twice
C12_InstancingDeclared ==
    \A document \in OutputDocuments :
        /\ ("EXT_mesh_gpu_instancing" \in Range(document.extensionsUsed))
             <=> CarriesInstancing(document)
        /\ Count(document.extensionsUsed, "EXT_mesh_gpu_instancing") <= 1

\* a GLB with an instanced node and one without have been written, the second by
\* the segmentation
C12_Witness ==
    /\ \E document \in OutputDocuments : CarriesInstancing(document)
    /\ segmentedFiles # <<>>
    /\ \E document \in OutputDocuments : ~CarriesInstancing(document)

\* the extension keys the materials of a document carry
MaterialExtensionKeys(gltf) ==
    UNION {Range(material.extensions) : material \in Range(gltf.materials)}

\* extensionsUsed lists, once each, the material extension keys of the
\* document's materials and no other material extension key
DeclaresMaterialKeys(gltf) ==
    /\ Range(gltf.extensionsUsed) \ {"EXT_mesh_gpu_instancing"}
         = MaterialExtensionKeys(gltf)
    /\ \A key \in Range(gltf.extensionsUsed) :
         Count(gltf.extensionsUsed, key) = 1

\* the material requests of the output under assembly that failed
FailedMaterialCopies ==
    {k \in DOMAIN assembly.requests :
        assembly.requests[k].kind = "material" /\ assembly.requests[k].ret < 0}

\* C13: whatever material copies the output under assembly has seen, successful
\* or failed, extensionsUsed lists a material extension key exactly when a
\* material of the output carries it, and lists no key twice
C13_Original ==
    assembly # <<>> => DeclaresMaterialKeys(assembly.gltf)

\* C13, successful copies only: the same while no material copy has failed
C13_AfterSuccessfulCopies ==
    (assembly # <<>> /\ FailedMaterialCopies = {})
        => DeclaresMaterialKeys(assembly.gltf)

\* a material with an extension key has been copied
C13_Copied ==
    /\ assembly # <<>>
    /\ MaterialExtensionKeys(assembly.gltf) # {}

\* the accessors of a document that have a bufferView lie inside a buffer of
\* the given length, start at their bufferView, and every bufferView starts
\* at a multiple of 4, hence of the component size of its accessors
AccessorsInBounds(gltf, length) ==
    /\ \A a \in DOMAIN gltf.accessors :
         gltf.accessors[a].bufferView >= 0 =>
           /\ ValidIndex(gltf.accessors[a].bufferView, gltf.bufferViews)
           /\ gltf.accessors[a].byteOffset = 0
           /\ At(gltf.bufferViews, gltf.accessors[a].bufferView).byteOffset
                + gltf.accessors[a].count
                    * computeByteSizeOfComponent(gltf.accessors[a].componentType)
                    * computeNumberOfComponents(gltf.accessors[a].type)
                <= length
           /\ At(gltf.bufferViews, gltf.accessors[a].bufferView).byteOffset
                % computeByteSizeOfComponent(gltf.accessors[a].componentType) = 0
    /\ \A b \in DOMAIN gltf.bufferViews : gltf.bufferViews[b].byteOffset % 4 = 0

\* C14: after any sequence of copies every accessor of the output with a
\* bufferView ends inside the consolidated buffer and has byteOffset 0, every
\* bufferView starts at a multiple of 4, and a written file declares the length
\* of the consolidated buffer as the byteLength of buffer 0
C14_AccessorsInBounds ==
    /\ assembly # <<>> => AccessorsInBounds(assembly.gltf, Len(assembly.buffer))
    /\ \A document \in OutputDocuments :
         /\ document.buffers # <<>> =>
              document.buffers[1].byteLength = Len(document.buffers[1].data)
         /\ document.accessors # <<>> =>
              /\ document.buffers # <<>>
              /\ AccessorsInBounds(document, document.buffers[1].byteLength)

\* a bufferView follows one whose length is no multiple of 4, and a file with
\* accessors has been written
C14_Witness ==
    /\ assembly # <<>>
    /\ \E b \in DOMAIN assembly.gltf.bufferViews :
         /\ assembly.gltf.bufferViews[b].byteLength % 4 # 0
         /\ b + 1 \in DOMAIN assembly.gltf.bufferViews
         /\ assembly.gltf.bufferViews[b + 1].byteOffset
              > assembly.gltf.bufferViews[b].byteOffset
                  + assembly.gltf.bufferViews[b].byteLength
    /\ \E document \in OutputDocuments : document.accessors # <<>>

\* the pairs of an earlier successful request and a later one of the same kind
\* for the same (model id, index), in the output under assembly
RepeatedRequests ==
    {pair \in (DOMAIN assembly.requests) \X (DOMAIN assembly.requests) :
        /\ pair[1] < pair[2]
        /\ assembly.requests[pair[1]].kind = assembly.requests[pair[2]].kind
        /\ assembly.requests[pair[1]].key = assembly.requests[pair[2]].key
        /\ assembly.requests[pair[1]].ret >= 0}

\* C15: within one output, a copy request for an accessor, bufferView,
\* material, texture, sampler or image whose (model id, index) has been copied
\* before returns the index handed out then and appends nothing to the output
\* model or to the buffer
C15_CopiedOnce ==
    assembly # <<>> =>
        \A pair \in RepeatedRequests :
            /\ assembly.requests[pair[2]].ret = assembly.requests[pair[1]].ret
            /\ ~assembly.requests[pair[2]].appended

\* an accessor, a texture and a sampler have each been requested a second time
C15_Witness ==
    /\ assembly # <<>>
    /\ \E pair \in RepeatedRequests : assembly.requests[pair[1]].kind = "accessor"
    /\ \E pair \in RepeatedRequests : assembly.requests[pair[1]].kind = "texture"
    /\ \E pair \in RepeatedRequests : assembly.requests[pair[1]].kind = "sampler"

\* the entries of before are the first entries of after
Prefix(before, after) ==
    /\ Len(before) <= Len(after)
    /\ \A k \in DOMAIN before : after[k] = before[k]

\* bufferViews with the target left out of the comparison
Untargeted(bufferViews) ==
    [k \in DOMAIN bufferViews |-> [bufferViews[k] EXCEPT !.target = 0]]

\* every index the remap tables have handed out is still handed out
RemapKept(before, after) ==
    \A kind \in DOMAIN before.remapping :
        \A key \in DOMAIN before.remapping[kind] :
            /\ key \in DOMAIN after.remapping[kind]
            /\ after.remapping[kind][key] = before.remapping[kind][key]

\* all entries appended before are unchanged after
Preserved(before, after) ==
    /\ Prefix(before.buffer, after.buffer)
    /\ Prefix(before.gltf.bufferViews, after.gltf.bufferViews)
    /\ Prefix(before.gltf.accessors, after.gltf.accessors)
    /\ Prefix(before.gltf.materials, after.gltf.materials)
    /\ Prefix(before.gltf.meshes, after.gltf.meshes)
    /\ Prefix(before.gltf.nodes, after.gltf.nodes)
    /\ RemapKept(before, after)

\* the same, but for the target of the bufferViews
PreservedButTarget(before, after) ==
    /\ Prefix(before.buffer, after.buffer)
    /\ Prefix(Untargeted(before.gltf.bufferViews), Untargeted(after.gltf.bufferViews))
    /\ Prefix(before.gltf.accessors, after.gltf.accessors)
    /\ Prefix(before.gltf.materials, after.gltf.materials)
    /\ Prefix(before.gltf.meshes, after.gltf.meshes)
    /\ Prefix(before.gltf.nodes, after.gltf.nodes)
    /\ RemapKept(before, after)

\* C16 as stated: from the reset of a write function to the call of writeGlb,
\* every step leaves the buffer bytes, bufferViews, accessors, materials, meshes
\* and nodes appended before unchanged, and the indices handed out keep
\* denoting the same entries
C16_Original ==
    [][asmPc = "assemble" => Preserved(assembly, assembly')]_vars

\* C16, amended: every iteration of the loops of a write function leaves the
\* entries appended before unchanged but for the target of bufferViews, and
\* the indices handed out stay valid until the pruning before writeGlb, which
\* leaves the buffer bytes and the materials as they are and removes no mesh
\* and no node
C16_AppendOnlyUntilPruning ==
    [][/\ (asmPc = "assemble" /\ worklist # <<>>)
            => PreservedButTarget(assembly, assembly')
       /\ (asmPc = "assemble" /\ worklist = <<>>)
            => /\ assembly'.buffer = assembly.buffer
               /\ assembly'.gltf.materials = assembly.gltf.materials
               /\ Len(assembly'.gltf.meshes) = Len(assembly.gltf.meshes)
               /\ Len(assembly'.gltf.nodes) = Len(assembly.gltf.nodes)]_vars

\* two iterations have appended a mesh and a node each
C16_Witness ==
    /\ asmPc = "assemble"
    /\ Len(assembly.gltf.meshes) >= 2
    /\ Len(assembly.gltf.nodes) >= 2
    /\ Len(assembly.buffer) > 0

\* the number of meshes of the models handed to the segmentation
MeshesToSegment ==
    Cardinality(UNION {{<<k, m>> : m \in DOMAIN ModelOf(modelsToSegment[k]).meshes} :
                           k \in DOMAIN modelsToSegment})

\* writeMeshesAsSeparateGlbs has returned true: every mesh was copied and every
\* file was written
SegmentationSucceeded ==
    /\ meshSegmentation
    /\ asmPc = "exit"
    /\ exitCode = 0
    /\ modelsToSegment # <<>>
    /\ overallSuccess

\* a GLB of one mesh, one node and one scene
SingleMesh(document) ==
    /\ Len(document.meshes) = 1
    /\ Len(document.nodes) = 1
    /\ Len(document.scenes) = 1

\* C17: a segmentation that has copied all k meshes of its source models leaves
\* k distinct GLB files, each with exactly one mesh, one node and one scene
C17_Original ==
    SegmentationSucceeded =>
        /\ Cardinality(Range(segmentedFiles)) = MeshesToSegment
        /\ \A key \in Range(segmentedFiles) : SingleMesh(outputDirectory[key].document)

\* C17, per write: such a segmentation writes k times, each time a GLB with
\* exactly one mesh, one node and one scene
C17_OneMeshPerWrite ==
    SegmentationSucceeded =>
        /\ Len(segmentedFiles) = MeshesToSegment
        /\ \A key \in Range(segmentedFiles) : SingleMesh(outputDirectory[key].document)

\* a segmentation of two meshes has succeeded
C17_Segmented ==
    /\ SegmentationSucceeded
    /\ MeshesToSegment >= 2

\* the attributes of an extension payload, typed or raw JSON
PayloadAttributes(payload) ==
    IF "json" \in DOMAIN payload THEN payload.json.attributes ELSE payload.attributes

\* the nodes of the model being segmented that reference the mesh of the
\* iteration and carry EXT_mesh_gpu_instancing with some attribute
InstancingNodesOfSegment ==
    {node \in Range(ModelOf(At(modelsToSegment, segmentIdx[1])).nodes) :
        /\ node.mesh = segmentIdx[2]
        /\ node.instancing # <<>>
        /\ PayloadAttributes(node.instancing[1]) # <<>>}

\* an iteration of the segmentation loop that has copied a mesh some node
\* references with such an extension
InstancedMeshSegmented ==
    /\ asmPc = "segment"
    /\ segmentIdx' = <<segmentIdx[1], segmentIdx[2] + 1>>
    /\ Len(assembly'.gltf.meshes) = 1
    /\ InstancingNodesOfSegment # {}

\* the exported node carries the extension, and each attribute of it names an
\* accessor of the new GLB with the declaration and the elements of the
\* accessor that the source attribute of that name names
RemappedInstancing(w, exported, source, payload) ==
    /\ exported.instancing # <<>>
    /\ \A k \in DOMAIN PayloadAttributes(payload) :
         /\ AttributeAccessor(w.gltf, exported.instancing[1].attributes,
                              PayloadAttributes(payload)[k][1]) # <<>>
         /\ [Declared(At(source.accessors, PayloadAttributes(payload)[k][2]))
                EXCEPT !.bufferView = 0, !.byteOffset = 0]
              = [AttributeAccessor(w.gltf, exported.instancing[1].attributes,
                                   PayloadAttributes(payload)[k][1])[1]
                    EXCEPT !.bufferView = 0, !.byteOffset = 0]
         /\ At(source.accessors, PayloadAttributes(payload)[k][2]).data
              = ReadElements(w.gltf, w.buffer,
                    AttributeAccessor(w.gltf, exported.instancing[1].attributes,
                                      PayloadAttributes(payload)[k][1])[1])

\* the exported node of the iteration preserves the extension of some source node
ExtensionPreserved ==
    \E node \in InstancingNodesOfSegment :
        RemappedInstancing(assembly', assembly'.gltf.nodes[1],
                           ModelOf(At(modelsToSegment, segmentIdx[1])),
                           node.instancing[1])

\* C18: when a node of the source model references the segmented mesh and
\* carries EXT_mesh_gpu_instancing, the exported node carries the extension
\* with the source accessors remapped into the new GLB, for a typed payload as
\* for a raw JSON one
C18_Original ==
    [][InstancedMeshSegmented => ExtensionPreserved]_vars

\* C18, raw JSON only: the same when the payload of the source node is a
\* nlohmann::json object
C18_RawJson ==
    [][(InstancedMeshSegmented /\ client = "writeMeshesAsSeparateGlbs")
          => ExtensionPreserved]_vars

\* a segmented GLB whose node carries the extension has been written
C18_RawJsonSegmented ==
    /\ client = "writeMeshesAsSeparateGlbs"
    /\ \E key \in Range(segmentedFiles) :
         CarriesInstancing(outputDirectory[key].document)

\* the instance groupings of a detection result: how many groups there are of
\* each instance count, and how many non-instanced entries
Grouping(groups, meshes) ==
    [groups |-> [n \in {Len(groups[k].instances) : k \in DOMAIN groups} |->
                    Cardinality({k \in DOMAIN groups : Len(groups[k].instances) = n})],
     nonInstanced |-> Len(meshes)]

\* the first process wrote both GLBs with a node for every group and for every
\* non-instanced entry
FirstRunComplete ==
    /\ Len(firstRun[1].written) = 2
    /\ Len(firstRun[1].written[1].nodes) = Len(firstRun[1].instancedGroups)
    /\ Len(firstRun[1].written[2].nodes) = Len(firstRun[1].nonInstancedMeshes)

\* detection has returned in a second process run, with instance_limit = 2 in
\* exact mode, on the two GLBs of such a first process
SecondRunDetected ==
    /\ run = 2
    /\ firstRun # <<>>
    /\ pc = "done"
    /\ instanceLimit = 2
    /\ geometryTolerance = 0
    /\ FirstRunComplete

\* the materials the meshes of the first process's input files use
InputMaterials ==
    UNION {{primitive.material :
              primitive \in UNION {Range(mesh.primitives) :
                                     mesh \in Range(readGltf(file.content).meshes)}} :
           file \in Range(firstRun[1].files)}

\* C19: with instance_limit = 2 in exact mode, detection on the GLBs a first run
\* has written yields the instance groupings of the first run: equally many
\* groups of each instance count and equally many non-instanced entries
C19_Original ==
    SecondRunDetected =>
        Grouping(instancedGroups, nonInstancedMeshes)
          = Grouping(firstRun[1].instancedGroups, firstRun[1].nonInstancedMeshes)

\* C19, one material: the same when all input meshes use one material
C19_OneMaterial ==
    (SecondRunDetected /\ Cardinality(InputMaterials) = 1) =>
        Grouping(instancedGroups, nonInstancedMeshes)
          = Grouping(firstRun[1].instancedGroups, firstRun[1].nonInstancedMeshes)

\* the second run has detected a group the first run has written
C19_SecondRun ==
    /\ SecondRunDetected
    /\ Cardinality(InputMaterials) = 1
    /\ firstRun[1].instancedGroups # <<>>
    /\ instancedGroups # <<>>

\* main has returned
Exited == client = "main" /\ asmPc = "exit"

\* C20: a process in which the writing of a planned output GLB has failed does
\* not end as one in which every output was written: not with the success
\* message and exit code 0
C20_Original ==
    (Exited /\ failedWrites # <<>>) => exitCode # 0

\* a process that has written both GLBs has ended with exit code 0
C20_CleanRun ==
    /\ Exited
    /\ failedWrites = <<>>
    /\ Len(stage1_outputGlbs) = 2
    /\ exitCode = 0

(***************************************************************************)
(* copyAccessor and its data (SpecRun).                                    *)
(***************************************************************************)
\* the accessor of the input a copy request names by (model id, index)
SourceAccessor(key) == At(ModelOf(loadedModels[key[1] + 1]).accessors, key[2])

\* the successful requests for an accessor that has a bufferView in its model
CopiedAccessors ==
    {r \in DOMAIN assembly.requests :
        /\ assembly.requests[r].kind = "accessor"
        /\ assembly.requests[r].ret >= 0
        /\ SourceAccessor(assembly.requests[r].key).bufferView >= 0}

\* the bufferView of the source has a stride beyond the size of an element
Interleaved(key) ==
    At(ModelOf(loadedModels[key[1] + 1]).bufferViews,
       SourceAccessor(key).bufferView).byteStride
      > computeNumberOfComponents(SourceAccessor(key).type)
          * computeByteSizeOfComponent(SourceAccessor(key).componentType)

\* accessor `new` of the output is the copy of `source`: the declared fields
\* but for byteOffset and bufferView, a bufferView of its own over exactly
\* count elements, and in that region the elements of the source one after
\* the other
IsPackedCopy(w, source, new) ==
    /\ ValidIndex(new, w.gltf.accessors)
    /\ LET newAccessor == At(w.gltf.accessors, new)
           size == computeByteSizeOfComponent(source.componentType)
       IN  /\ newAccessor.byteOffset = 0
           /\ [newAccessor EXCEPT !.byteOffset = source.byteOffset,
                                  !.bufferView = source.bufferView]
                = Declared(source)
           /\ ValidIndex(newAccessor.bufferView, w.gltf.bufferViews)
           /\ \A other \in DOMAIN w.gltf.accessors :
                  other # new + 1 =>
                      w.gltf.accessors[other].bufferView # newAccessor.bufferView
           /\ LET bufferView == At(w.gltf.bufferViews, newAccessor.bufferView)
              IN  /\ bufferView.buffer = 0
                  /\ bufferView.byteLength
                       = source.count * size * computeNumberOfComponents(source.type)
                  /\ SubSeq(w.buffer, bufferView.byteOffset + 1,
                            bufferView.byteOffset + bufferView.byteLength)
                       = ElementsBytes(source.data, size)

\* the byteStride of the bufferView of accessor `new` of the output
StrideOfCopy(w, new) ==
    At(w.gltf.bufferViews, At(w.gltf.accessors, new).bufferView).byteStride

\* C21 as stated: a copied accessor with a bufferView has its count elements
\* de-interleaved and contiguous in the output buffer, behind a new bufferView
\* whose byteStride is the size of an element, and equals the source in the
\* declared fields but for byteOffset = 0 and bufferView = the new index
C21_Original ==
    asmPc = "assemble" =>
        \A r \in CopiedAccessors :
            /\ IsPackedCopy(assembly, SourceAccessor(assembly.requests[r].key),
                            assembly.requests[r].ret)
            /\ StrideOfCopy(assembly, assembly.requests[r].ret)
                 = computeNumberOfComponents(
                       SourceAccessor(assembly.requests[r].key).type)
                     * computeByteSizeOfComponent(
                           SourceAccessor(assembly.requests[r].key).componentType)

\* C21, amended: the same, but the new bufferView has no byteStride (its
\* elements are tightly packed, so the effective stride is the element size)
C21_PackedCopy ==
    asmPc = "assemble" =>
        \A r \in CopiedAccessors :
            /\ IsPackedCopy(assembly, SourceAccessor(assembly.requests[r].key),
                            assembly.requests[r].ret)
            /\ StrideOfCopy(assembly, assembly.requests[r].ret) = 0

\* an interleaved accessor and a tightly packed one have been copied
C21_Witness ==
    /\ asmPc = "assemble"
    /\ \E r \in CopiedAccessors : Interleaved(assembly.requests[r].key)
    /\ \E r \in CopiedAccessors : ~Interleaved(assembly.requests[r].key)

(***************************************************************************)
(* The data hash and the tolerance signature (SpecSig).                    *)
(***************************************************************************)
\* the POSITION accessors of the two primitives
Position1 == FindAttribute(prim1.attributes, "POSITION")
Position2 == FindAttribute(prim2.attributes, "POSITION")

\* two accessors of SigModel with the same logical element sequence: type,
\* component type, count and the elements the offset and stride select
SameElements(a1, a2) ==
    /\ At(SigModel.accessors, a1).type = At(SigModel.accessors, a2).type
    /\ At(SigModel.accessors, a1).componentType
         = At(SigModel.accessors, a2).componentType
    /\ At(SigModel.accessors, a1).count = At(SigModel.accessors, a2).count
    /\ DataOf(a1) = DataOf(a2)

\* the stride of the bufferView of an accessor of SigModel exceeds its element
StridedInSigModel(a) ==
    At(SigModel.bufferViews, At(SigModel.accessors, a).bufferView).byteStride
      > computeNumberOfComponents(At(SigModel.accessors, a).type)
          * computeByteSizeOfComponent(At(SigModel.accessors, a).componentType)

\* the two primitives are the same but for the accessor index of POSITION
SameButPosition(p1, p2) ==
    /\ p1.material = p2.material /\ p1.mode = p2.mode /\ p1.indices = p2.indices
    /\ p1.targets = p2.targets
    /\ Len(p1.attributes) = Len(p2.attributes)
    /\ \A k \in DOMAIN p1.attributes :
          /\ p1.attributes[k][1] = p2.attributes[k][1]
          /\ p1.attributes[k][1] # "POSITION"
                => p1.attributes[k][2] = p2.attributes[k][2]

\* C22 as stated: the data hash is a function of the logical element sequence
\* of the accessor only, so two accessors with equal element sequences hash
\* equal whether tightly packed or interleaved, and two primitives that
\* differ only in such accessors get the same exact signature
C22_Original ==
    (sigPc = "signed" /\ SameElements(Position1, Position2)) =>
        /\ hashAccessorData(SigModel, Position1, "POSITION", 0)
             = hashAccessorData(SigModel, Position2, "POSITION", 0)
        /\ (sigTolerance <= ExactEps /\ SameButPosition(prim1, prim2))
              => sig1 = sig2

\* the same for accessors whose bufferView has no stride beyond the element
C22_TightlyPacked ==
    (/\ sigPc = "signed" /\ SameElements(Position1, Position2)
     /\ ~StridedInSigModel(Position1) /\ ~StridedInSigModel(Position2)) =>
        /\ hashAccessorData(SigModel, Position1, "POSITION", 0)
             = hashAccessorData(SigModel, Position2, "POSITION", 0)
        /\ (sigTolerance <= ExactEps /\ SameButPosition(prim1, prim2))
              => sig1 = sig2

\* an interleaved and a tightly packed accessor with the same elements
C22_Interleaved ==
    /\ sigPc = "signed"
    /\ SameElements(Position1, Position2)
    /\ StridedInSigModel(Position1) /\ ~StridedInSigModel(Position2)

\* the two primitives are the same but for the accessor index of the indices
SameButIndices(p1, p2) ==
    /\ p1.material = p2.material /\ p1.mode = p2.mode
    /\ p1.attributes = p2.attributes /\ p1.targets = p2.targets

\* both primitives have indices, of the same type and count and with
\* different contents
IndicesDifferInContents ==
    /\ ValidIndex(prim1.indices, SigModel.accessors)
    /\ ValidIndex(prim2.indices, SigModel.accessors)
    /\ At(SigModel.accessors, prim1.indices).type
         = At(SigModel.accessors, prim2.indices).type
    /\ At(SigModel.accessors, prim1.indices).componentType
         = At(SigModel.accessors, prim2.indices).componentType
    /\ At(SigModel.accessors, prim1.indices).count
         = At(SigModel.accessors, prim2.indices).count
    /\ DataOf(prim1.indices) # DataOf(prim2.indices)

\* C23 as stated: in tolerance mode two primitives that are equal in
\* everything except the contents of their indices accessors (same index
\* count) get different signatures
C23_Original ==
    (/\ sigPc = "signed" /\ sigTolerance > ExactEps
     /\ SameButIndices(prim1, prim2) /\ IndicesDifferInContents)
        => sig1 # sig2

\* the same in exact mode
C23_ExactMode ==
    (/\ sigPc = "signed" /\ sigTolerance <= ExactEps
     /\ SameButIndices(prim1, prim2) /\ IndicesDifferInContents)
        => sig1 # sig2

\* two such primitives have been signed in tolerance mode
C23_Signed ==
    /\ sigPc = "signed" /\ sigTolerance > ExactEps
    /\ SameButIndices(prim1, prim2) /\ IndicesDifferInContents

\* type, component type, count and normalized flag of an accessor of SigModel
Metadata(a) ==
    <<At(SigModel.accessors, a).type, At(SigModel.accessors, a).componentType,
      At(SigModel.accessors, a).count, At(SigModel.accessors, a).normalized>>

\* C24 as stated: in tolerance mode the name of an attribute whose data is
\* excluded from the hash and the type, component type, count and normalized
\* flag of its accessor are mixed into the signature, so two primitives that
\* differ only in that metadata of POSITION get different signatures
C24_Original ==
    (/\ sigPc = "signed" /\ sigTolerance > ExactEps
     /\ SameButPosition(prim1, prim2)
     /\ Metadata(Position1) # Metadata(Position2))
        => sig1 # sig2

\* what is mixed in for POSITION: its name and the count of its accessor
C24_NameAndCount ==
    (/\ sigPc = "signed" /\ sigTolerance > ExactEps
     /\ SameButPosition(prim1, prim2))
        => /\ sig1 = sig2
           /\ At(SigModel.accessors, Position1).count
                = At(SigModel.accessors, Position2).count

\* two primitives whose POSITION accessors differ in type only
C24_Signed ==
    /\ sigPc = "signed" /\ sigTolerance > ExactEps
    /\ SameButPosition(prim1, prim2)
    /\ Metadata(Position1) # Metadata(Position2)

(***************************************************************************)
(* Claims about the detector, checked under SpecRun.                       *)
(***************************************************************************)
\* the node a candidate was made for
NodeOfCandidate(c) ==
    At(ModelOf(At(loadedModels, c.originalGltfIndex)).nodes, c.originalNodeIndex)

\* the counts of the TRANSLATION, ROTATION and SCALE accessors the extension
\* of the node names
InstancingCounts(c) ==
    LET model == ModelOf(At(loadedModels, c.originalGltfIndex))
        attributes == NodeOfCandidate(c).instancing[1].attributes
    IN  {At(model.accessors, FindAttribute(attributes, a)).count :
           a \in {name \in {"TRANSLATION", "ROTATION", "SCALE"} :
                     ValidIndex(FindAttribute(attributes, name), model.accessors)}}

\* how many candidates of the same node come before candidate k of a group:
\* the instance index i of candidate k, every node being visited once
InstanceIndex(inst, k) ==
    Cardinality({j \in 1..(k - 1) :
                    /\ inst[j].originalGltfIndex = inst[k].originalGltfIndex
                    /\ inst[j].originalNodeIndex = inst[k].originalNodeIndex})

\* instance i takes its value from one accessor and the default in place of
\* another, which has no element i
MixesDefaults(inst, k) ==
    /\ NodeOfCandidate(inst[k]).instancing # <<>>
    /\ \E c1, c2 \in InstancingCounts(inst[k]) :
          c1 > InstanceIndex(inst, k) /\ c2 <= InstanceIndex(inst, k)

\* C25 as stated: the detector checks that the TRANSLATION, ROTATION and
\* SCALE accessors of an extension node have the same count before it emits
\* instances, so no emitted instance mixes the values of some accessors with
\* the default translation, rotation or scale in place of the others
C25_Original ==
    \A signature \in DOMAIN potentialInstanceGroups :
        \A k \in DOMAIN potentialInstanceGroups[signature].instances :
            ~MixesDefaults(potentialInstanceGroups[signature].instances, k)

\* an extension node whose accessors disagree on the count has been visited
C25_UnevenVisited ==
    \E signature \in DOMAIN potentialInstanceGroups :
        \E k \in DOMAIN potentialInstanceGroups[signature].instances :
            /\ NodeOfCandidate(potentialInstanceGroups[signature].instances[k])
                 .instancing # <<>>
            /\ Cardinality(InstancingCounts(
                   potentialInstanceGroups[signature].instances[k])) > 1

(***************************************************************************)
(* Claims about the traversal, checked under Spec.                         *)
(***************************************************************************)
\* the world matrices of node nodeIndex over the visits of the default scene
\* of a document.  On the glTF JSON of a file, where a property the file
\* leaves out is <<>>, getLocalTransformMatrix is the rule of the
\* specification: T.R.S if any of the three is present, else the matrix, else
\* the identity
WorldsOf(document, nodeIndex) ==
    {visit.world : visit \in {v \in Range(DefaultSceneVisits(document)) :
                                 v.nodeIndex = nodeIndex}}

\* the records made for plain mesh nodes: <<model id, node index, transform>>
PlainRecords ==
    UNION {{<<c.originalGltfIndex, c.originalNodeIndex, c.transform>> :
              c \in {d \in Range(potentialInstanceGroups[signature].instances) :
                       At(ModelOf(At(loadedModels, d.originalGltfIndex)).nodes,
                          d.originalNodeIndex).instancing = <<>>}} :
           signature \in DOMAIN potentialInstanceGroups}
      \cup {<<m.originalGltfModelIndex, m.originalNodeIndexInModel, m.transform>> :
              m \in Range(nonInstancedMeshes)}

\* a node on a path of the default scene of a loaded file has a matrix and
\* none of translation, rotation, scale
MatrixOnly(node) ==
    /\ node.matrix # <<>>
    /\ node.translation = <<>> /\ node.rotation = <<>> /\ node.scale = <<>>

\* C26 as stated: the TRS of every record of a plain mesh node is decomposed
\* from the ordered product W_parent . W_local of the local transforms on the
\* path from the scene root to the node, starting from the identity, the local
\* transform of a node being T.R.S if any of translation, rotation, scale is
\* present in the file, else its 16-element matrix, else the identity
C26_Original ==
    TraversalJustOver =>
        \A record \in PlainRecords :
            record[3] \in {fromMat4(world) :
                             world \in WorldsOf(GltfJson(At(loadedModels, record[1]).content),
                                                record[2])}

\* the same with the nodes as the reader hands them to the detector, which
\* have a translation, a rotation and a scale whatever the file says
C26_ParsedNodes ==
    TraversalJustOver =>
        \A record \in PlainRecords :
            record[3] \in {fromMat4(world) :
                             world \in WorldsOf(ModelOf(At(loadedModels, record[1])),
                                                record[2])}

\* a record has been made for a node below a scaled and translated parent, and
\* one for a node that has a matrix only
C26_Hierarchy ==
    /\ TraversalJustOver
    /\ \E record \in PlainRecords :
          MatrixOnly(At(GltfJson(At(loadedModels, record[1]).content).nodes, record[2]))
    /\ \E record \in PlainRecords :
          /\ record[3].scale = <<2, 2, 2>>
          /\ ~MatrixOnly(At(GltfJson(At(loadedModels, record[1]).content).nodes,
                            record[2]))

(***************************************************************************)
(* C27: a record whose mesh cannot be copied yields no node.               *)
(***************************************************************************)
\* the model ID and the mesh index an entry of the work list names
RecordModelId(entry) ==
    IF entry.kind = "group" THEN entry.item.representativeGltfModelIndex
    ELSE entry.item.originalGltfModelIndex
RecordMeshIndex(entry) ==
    IF entry.kind = "group" THEN entry.item.representativeMeshIndexInModel
    ELSE entry.item.originalMeshIndexInModel

\* the validation of copyAccessor rejects the accessor: no such accessor, or
\* one with a bufferView that is missing, whose buffer is missing or empty,
\* or whose data reach beyond the buffer
RejectedAccessor(model, accessorIndex) ==
    \/ ~ValidIndex(accessorIndex, model.accessors)
    \/ LET accessor == At(model.accessors, accessorIndex)
       IN  /\ accessor.bufferView >= 0
           /\ \/ ~ValidIndex(accessor.bufferView, model.bufferViews)
              \/ LET bufferView == At(model.bufferViews, accessor.bufferView)
                 IN  \/ ~ValidIndex(bufferView.buffer, model.buffers)
                     \/ At(model.buffers, bufferView.buffer).data = <<>>
                     \/ bufferView.byteOffset + accessor.byteOffset
                          + accessor.count
                              * computeNumberOfComponents(accessor.type)
                              * computeByteSizeOfComponent(accessor.componentType)
                          > Len(At(model.buffers, bufferView.buffer).data)

\* the accessors a primitive refers to
PrimitiveAccessors(primitive) ==
    (IF primitive.indices >= 0 THEN {primitive.indices} ELSE {})
      \cup {primitive.attributes[k][2] : k \in DOMAIN primitive.attributes}
      \cup UNION {{primitive.targets[t][k][2] : k \in DOMAIN primitive.targets[t]}
                     : t \in DOMAIN primitive.targets}

\* the entry names a model that is not loaded, a mesh the model does not
\* have, or a mesh with an accessor that copyAccessor rejects
UnknownOrBroken(entry) ==
    LET found == getOriginalModelById(loadedModels, RecordModelId(entry))
    IN  \/ found = <<>>
        \/ ~ValidIndex(RecordMeshIndex(entry), found[1].meshes)
        \/ \E p \in DOMAIN At(found[1].meshes, RecordMeshIndex(entry)).primitives :
             \E a \in PrimitiveAccessors(
                          At(found[1].meshes, RecordMeshIndex(entry)).primitives[p]) :
                RejectedAccessor(found[1], a)

\* one iteration of a loop of a write function
RecordStep ==
    /\ asmPc = "assemble"
    /\ worklist # <<>>
    /\ assembly' # assembly \/ worklist' # worklist

\* the iteration appends a mesh to the output: the mesh copy has succeeded
MeshCopied == Len(assembly'.gltf.meshes) = Len(assembly.gltf.meshes) + 1

\* the iteration appends one root node, which references the mesh just copied
NodeCreated ==
    /\ Len(assembly'.gltf.nodes) = Len(assembly.gltf.nodes) + 1
    /\ SubSeq(assembly'.gltf.nodes, 1, Len(assembly.gltf.nodes)) = assembly.gltf.nodes
    /\ assembly'.gltf.nodes[Len(assembly'.gltf.nodes)].mesh = Len(assembly.gltf.meshes)
    /\ assembly'.rootNodeIndices
         = Append(assembly.rootNodeIndices, Len(assembly.gltf.nodes))

\* the iteration leaves the nodes as they are
NoNodeCreated ==
    /\ assembly'.gltf.nodes = assembly.gltf.nodes
    /\ assembly'.rootNodeIndices = assembly.rootNodeIndices

\* C27: an iteration over a record whose model is unknown, whose mesh index is
\* invalid or whose mesh has an accessor that cannot be copied creates no node;
\* every iteration creates one root node for a copied mesh and none otherwise,
\* and goes on with the next record; the scene written when the records are
\* exhausted lists exactly the nodes so created
C27_FailedCopyYieldsNoNode ==
    [][/\ RecordStep =>
            /\ UnknownOrBroken(Head(worklist)) => ~MeshCopied
            /\ IF MeshCopied THEN NodeCreated ELSE NoNodeCreated
            /\ worklist' = Tail(worklist)
            /\ asmPc' = "assemble"
       /\ (asmPc = "assemble" /\ worklist = <<>> /\ asmPc' # "assemble") =>
            /\ Len(assembly'.gltf.nodes) = Len(assembly.gltf.nodes)
            /\ \A n \in DOMAIN assembly.gltf.nodes :
                 assembly'.gltf.nodes[n].mesh = n - 1
            /\ Len(assembly'.gltf.meshes) = Len(assembly.gltf.nodes)
            /\ assembly.rootNodeIndices
                 = [k \in 1..Len(assembly.gltf.nodes) |-> k - 1]
            /\ IF assembly.gltf.nodes = <<>> THEN assembly'.gltf.scenes = <<>>
               ELSE assembly'.gltf.scenes = << assembly.rootNodeIndices >>]_vars

\* a write has finished whose records were one with a mesh that has a
\* rejected accessor and one whose mesh was copied: the file has one node
C27_Witness ==
    /\ asmPc # "assemble"
    /\ asmMode = "writeNonInstancedMeshesOnly"
    /\ \E k \in DOMAIN Worklist(asmMode) : UnknownOrBroken(Worklist(asmMode)[k])
    /\ \E k \in DOMAIN Worklist(asmMode) : ~UnknownOrBroken(Worklist(asmMode)[k])
    /\ assembly # <<>>
    /\ Len(assembly.gltf.nodes) = 1
    /\ Len(Worklist(asmMode)) = 2

(***************************************************************************)
(* C28: the records of the detection result against the visits.            *)
(***************************************************************************)
\* the instances of the emitted groups, group after group
EmittedInstances ==
    Concat([k \in DOMAIN instancedGroups |-> instancedGroups[k].instances])

RECURSIVE ExpectedRecords(_)
\* plain mesh-node visits plus the instance counts of the extension nodes
ExpectedRecords(visits) ==
    IF visits = <<>> THEN 0
    ELSE ExpectedCandidates(Head(visits)) + ExpectedRecords(Tail(visits))

\* the detection result has a record made for the node of the visit, under
\* the ID of its model or of the first model of its hash class
HasRecord(visit) ==
    \/ \E i \in DOMAIN EmittedInstances :
          /\ EmittedInstances[i].originalGltfIndex
               \in {visit.id, RewriteModelId(visit.id)}
          /\ EmittedInstances[i].originalNodeIndex = visit.nodeIndex
    \/ \E k \in DOMAIN nonInstancedMeshes :
          /\ nonInstancedMeshes[k].originalGltfModelIndex
               \in {visit.id, RewriteModelId(visit.id)}
          /\ nonInstancedMeshes[k].originalNodeIndexInModel = visit.nodeIndex

\* the records of the result are as many as the visits are to contribute
TotalsAgree ==
    Len(EmittedInstances) + Len(nonInstancedMeshes) = ExpectedRecords(AllVisits)

\* C28 as stated: when detect has returned, the totals agree and every visit
\* of a node with a valid mesh has at least one record
C28_Original ==
    pc = "done" =>
        /\ TotalsAgree
        /\ \A visit \in Range(AllVisits) : MeshBearing(visit) => HasRecord(visit)

\* C28: when detect has returned, the totals agree, and a visit of a node
\* with a valid mesh has a record unless the node carries
\* EXT_mesh_gpu_instancing with an instance count of 0, which has none
C28_RecordsOfVisits ==
    pc = "done" =>
        /\ TotalsAgree
        /\ \A visit \in Range(AllVisits) :
              /\ Yielding(visit) => HasRecord(visit)
              /\ (MeshBearing(visit) /\ ~Yielding(visit)) => ~HasRecord(visit)

\* detect has returned groups and non-instanced entries made from plain nodes
\* and from an extension node of two instances
C28_Witness ==
    /\ pc = "done"
    /\ instancedGroups # <<>>
    /\ nonInstancedMeshes # <<>>
    /\ \E visit \in Range(AllVisits) :
          MeshBearing(visit) /\ IsExtension(visit) /\ DescribedInstances(visit) = 2
    /\ \E visit \in Range(AllVisits) : MeshBearing(visit) /\ ~IsExtension(visit)
    /\ ExpectedRecords(AllVisits) >= 4

(***************************************************************************)
(* SpecGraph: the detector on node graphs that are not trees.  "cycle" has *)
(* a node that is its own grandchild, "shared" a node with two parents.    *)
(* The process runs on until it returns or ends.                           *)
(***************************************************************************)
InitGraph ==
    /\ files \in
         { [k \in 1..Len(SortedSeq(S)) |->
               [path |-> Paths[SortedSeq(S)[k]], content |-> c[SortedSeq(S)[k]]]] :
           S \in {T \in SUBSET (1..Len(Paths)) :
                     T # {} /\ Cardinality(T) <= MaxModels},
           c \in [1..Len(Paths) -> {"cycle", "shared", "twoCubes"}] }
    /\ USE_OPENSSL_SHA256 \in BOOLEAN
    /\ geometryTolerance \in GeometryTolerances
    /\ instanceLimit \in 1..MaxInstanceLimit
    /\ loadedModels = <<>>
    /\ pc = "load"
    /\ modelIdx = 0
    /\ stack = <<>>
    /\ potentialInstanceGroups = <<>>
    /\ finalized = {}
    /\ meshToSignatureCache = <<>>
    /\ modelIdToRepresentativeModelId = <<>>
    /\ instancedGroups = <<>>
    /\ nonInstancedMeshes = <<>>
    /\ SigIdle
    /\ AsmIdle

NextGraph ==
    \/ loadGltfModels
    \/ detectHashClasses
    \/ detectScene
    \/ traverseNode
    \/ stackOverflow
    \/ detectFinalize
    \/ detectReturn

\* Every step of the process that can be taken is taken in the end.  The weak
\* fairness of traverseNode is written with the guard of the action in the
\* place of ENABLED: the action can be taken exactly when its guard holds.
SpecGraph ==
    /\ InitGraph /\ [][NextGraph]_vars
    /\ WF_vars(loadGltfModels) /\ WF_vars(detectHashClasses) /\ WF_vars(detectScene)
    /\ WF_vars(stackOverflow) /\ WF_vars(detectFinalize) /\ WF_vars(detectReturn)
    /\ \/ []<>(~(/\ pc = "detect" /\ stack # <<>>
                  /\ Head(stack).depth <= MaxCallDepth))
       \/ []<><<traverseNode>>_vars

(***************************************************************************)
(* C29: detect terminates.                                                 *)
(***************************************************************************)
\* a node of the document can be reached from itself along children lists
RECURSIVE Descendants(_, _, _)
Descendants(model, nodes, seen) ==
    LET next == UNION {{c \in Range(At(model.nodes, n).children) :
                           ValidIndex(c, model.nodes)} : n \in nodes}
    IN  IF next \subseteq seen THEN seen
        ELSE Descendants(model, next \ seen, seen \cup next)

HasCycle(model) ==
    \E n \in 0..(Len(model.nodes) - 1) : n \in Descendants(model, {n}, {})

\* a node of the document is in the children lists of two nodes
HasSharedNode(model) ==
    \E n, m \in DOMAIN model.nodes :
        /\ n # m
        /\ Range(model.nodes[n].children) \cap Range(model.nodes[m].children) # {}

\* C29 as stated: detect returns, whatever the node graphs of the loaded
\* models, cyclic children lists and nodes with several parents included
C29_Original == <>(pc = "done")

\* C29 without cycles: when no input file has a node that is its own
\* descendant, detect returns, nodes with several parents included
C29_AcyclicReturns ==
    (\A k \in DOMAIN files : ~HasCycle(readGltf(files[k].content)))
        => <>(pc = "done")

\* detect has returned for a model with a node of two parents, visited twice
C29_SharedVisitedTwice ==
    /\ pc = "done"
    /\ \E k \in DOMAIN loadedModels : HasSharedNode(ModelOf(loadedModels[k]))
    /\ Len(EmittedInstances) + Len(nonInstancedMeshes) >= 2

\* the traversal of a model with a cycle has used up the call stack
C29_Overflow ==
    /\ pc = "overflow"
    /\ \E k \in DOMAIN loadedModels : HasCycle(ModelOf(loadedModels[k]))

(***************************************************************************)
(* C30: a write function returns a path only for a completely written file.*)
(***************************************************************************)
\* a write function returns
WriteReturns == asmPc = "assemble" /\ worklist = <<>> /\ asmPc' # "assemble"

\* it returns a path: its caller records no failure
PathReturned == failedWrites' = failedWrites

\* the file of the call holds all the bytes of the serialized output
CompletelyWritten ==
    LET key == PathKey(<<OutputDirectoryName(run), OutputName(asmMode)>>)
    IN  /\ key \in DOMAIN outputDirectory'
        /\ outputDirectory'[key] = WrittenFile(assembly'.gltf, assembly'.buffer)

\* C30 as stated: each of the three write functions returns a path only if
\* the serialized bytes were completely written to the output file
C30_Original ==
    [][(WriteReturns /\ PathReturned) => CompletelyWritten]_vars

\* C30 for writeInstancedGlb alone, which tests the stream behind write and
\* close
C30_InstancedGlb ==
    [][(WriteReturns /\ PathReturned /\ asmMode = "writeInstancedGlb")
          => CompletelyWritten]_vars

\* main holds the path of a stage 1 GLB whose bytes were not all written
C30_IncompleteReturned ==
    \E k \in DOMAIN stage1_outputGlbs :
        ~outputDirectory[PathKey(stage1_outputGlbs[k])].complete

\* writeInstancedGlb has returned without a path and left an incomplete file
C30_InstancedGlbFailed ==
    /\ client = "writeInstancedGlb"
    /\ asmPc = "returned"
    /\ failedWrites # <<>>
    /\ \E key \in DOMAIN outputDirectory : ~outputDirectory[key].complete

====
